---- MODULE Spec2Model ----
(***************************************************************************)
(* Verification model of the yeeeone/snippets integrity-check utilities:   *)
(*   - file_pair_checker.py      (FilePairChecker: pair reconciliation)    *)
(*   - restore_specific_dates.py (JSONFieldFixer: scan / plan / repair)    *)
(*   - json_date_validator.py    (JSONDateValidator: date validation)      *)
(* and of the export-report tool                                           *)
(*   - video_stats_analyzer.py   (VideoStatsAnalyzer: processed folders)   *)
(* Each tool has its own specification (SpecPair, SpecFix, SpecVal,        *)
(* SpecStats) over the module's variables; the variables of the other      *)
(* tools stay unchanged.                                                   *)
(***************************************************************************)
EXTENDS Integers, Sequences, FiniteSets, TLC

VARIABLES
    pairDirs,     \* pair checker: existing directory |-> set of its entries
    pairCall,     \* pair checker: arguments of the last check (or NoCall)
    pairResult,   \* pair checker: value returned by the last check
    fs,           \* fixer: path of each existing JSON file |-> its bytes
    job,          \* fixer: the repair job (the command line's arguments)
    now,          \* fixer: the clock, in seconds
    calls,        \* fixer: number of invocations made so far
    faults,       \* fixer: number of I/O operations that have failed so far
    last,         \* fixer: the last fix_file call of the current invocation
    run,          \* fixer: the fix_folders run of the current invocation
    valConf,      \* validator: date_formats, year_range and the target fields
    valFs,        \* validator: path of each existing JSON file |-> its content
    valCall,      \* validator: the last call of is_valid_date_format or
                  \*   check_json_file made on its own, with what it returned
    valRun,       \* validator: the validate_folders run
    uploads,      \* analyzer: the upload folders below base_path
    stats_output, \* analyzer: output_dir, with processed_folders.json
    analyzer      \* analyzer: the VideoStatsAnalyzer of the current run

pairVars == <<pairDirs, pairCall, pairResult>>

fixVars == <<fs, job, now, calls, faults, last, run>>

valVars == <<valConf, valFs, valCall, valRun>>

vars == <<pairDirs, pairCall, pairResult, fs, job, now, calls, faults, last, run,
          valConf, valFs, valCall, valRun, uploads, stats_output, analyzer>>

(***************************************************************************)
(* Bounds of the model.                                                    *)
(***************************************************************************)
\* stems are numbered 1..MaxStem ("video_001", "video_002", ...)
MaxStem == 2
\* a small directory holds at most MaxEntries entries
MaxEntries == 3
\* a bulk directory holds the stems 1..BulkStems
BulkStems == 20001
\* the clock runs from 0 to MaxClock
MaxClock == 1
\* invocations of the fixer in one behaviour
MaxCalls == 1
\* I/O operations (copy, write) that fail in one behaviour
MaxFaults == 1
\* runs of the video stats analyzer in one behaviour
MaxRuns == 2

(***************************************************************************)
(* File names.  A name is its base (a numbered stem) followed by the       *)
(* dot-separated components after it: video_001.mp4 is                     *)
(* [base |-> 1, exts |-> <<"mp4">>], video_001.old.json is                 *)
(* [base |-> 1, exts |-> <<"old", "json">>].  A directory entry is a name  *)
(* plus whether it is a regular file.                                      *)
(***************************************************************************)
NoCall == [mode |-> "none"]
NoResult == [kind |-> "unset"]
\* Python None returned by a check
PyNone == [kind |-> "None"]

\* str.lower() on the extension texts the model uses
Lower(s) ==
    CASE s = "MP4" -> "mp4"
      [] s = "JSON" -> "json"
      [] OTHER -> s

\* pathlib: Path.suffix without its leading dot ("" when there is none)
Suffix(name) ==
    IF Len(name.exts) = 0 THEN "" ELSE name.exts[Len(name.exts)]

\* pathlib: Path(filename).stem, the name without its last suffix
get_basename_without_ext(name) ==
    IF Len(name.exts) = 0
    THEN name
    ELSE [base |-> name.base, exts |-> SubSeq(name.exts, 1, Len(name.exts) - 1)]

\* an extension argument: `dots` leading dots followed by `body`;
\* extension.lower().lstrip('.') drops the dots and lowers the body
CleanExt(ext) == Lower(ext.body)

\* mutant: the suffix is compared without lowering it
get_files_by_extension_CaseSensitive(directory, extension) ==
    IF directory \notin DOMAIN pairDirs
    THEN {}
    ELSE {e.name : e \in {x \in pairDirs[directory] :
                             x.isFile /\ Suffix(x.name) = CleanExt(extension)}}

\* get_files_by_extension: the names of the regular files directly in
\* `directory` whose lowered suffix equals the cleaned extension; empty when
\* the directory does not exist.  (The code returns them sorted; names are
\* unique within a directory, so the list is modelled by its set.)
get_files_by_extension(directory, extension) ==
    IF directory \notin DOMAIN pairDirs
    THEN {}
    ELSE {e.name : e \in {x \in pairDirs[directory] :
                             x.isFile /\ Lower(Suffix(x.name)) = CleanExt(extension)}}

\* Python's set(iterable): the set of the elements.  (Its size is taken first
\* so that the checker holds the set in canonical form; the value is S.)
PySet(S) == IF Cardinality(S) >= 0 THEN S ELSE {}

\* set(get_basename_without_ext(f) for f in files)
Basenames(files) == PySet({get_basename_without_ext(f) : f \in files})

(***************************************************************************)
(* Match rate.  match_rate = len(perfect_pairs) / total_unique * 100 is    *)
(* kept as the exact fraction num/den; round(match_rate, 2) is kept in     *)
(* hundredths of a percent.  Python rounds the binary value of the float   *)
(* correctly; that differs from rounding the exact fraction only when the  *)
(* fraction lies exactly halfway between two hundredths, which needs       *)
(* total_unique to be a multiple of 32.  Halfway cases are rounded to the  *)
(* even neighbour here.                                                    *)
(***************************************************************************)
\* mutant: an empty union counted as a full match
MatchRate_EmptyIsFull(pairs, total_unique) ==
    IF total_unique > 0
    THEN [num |-> pairs * 100, den |-> total_unique]
    ELSE [num |-> 100, den |-> 1]

MatchRate(pairs, total_unique) ==
    IF total_unique > 0
    THEN [num |-> pairs * 100, den |-> total_unique]
    ELSE [num |-> 0, den |-> 1]

\* round(match_rate, 2), in hundredths
Round2(rate) ==
    LET scaled == rate.num * 100
        q == scaled \div rate.den
        r2 == 2 * (scaled % rate.den)
    IN  IF r2 > rate.den \/ (r2 = rate.den /\ q % 2 = 1) THEN q + 1 ELSE q

PerfectPairs(b1, b2) == b1 \cap b2

\* mutant: the first side is not reduced by the second
Ext1Only_NoDifference(b1, b2) == b1

Ext1Only(b1, b2) == b1 \ b2
Ext2Only(b1, b2) == b2 \ b1
TotalUnique(b1, b2) == Cardinality(b1 \cup b2)

\* the number of perfect pairs _format_result keeps for the JSON report
SampleSize == 100

\* sorted(list(S))[:n] of a set of stems; sorted() orders the names by the
\* numbered base, and a stem before the same stem with a further suffix
RECURSIVE FirstSorted(_, _)
FirstSorted(S, n) ==
    IF n = 0 \/ S = {}
    THEN <<>>
    ELSE LET least == CHOOSE x \in S :
                        \A y \in S : ~(\/ y.base < x.base
                                       \/ y.base = x.base /\ Len(y.exts) < Len(x.exts))
         IN  <<least>> \o FirstSorted(S \ {least}, n - 1)

\* the stems of S among which its n first in name order are found: those
\* whose base is at most b, for the first b (doubled each time) that leaves
\* n of them
RECURSIVE Lowest(_, _, _)
Lowest(S, n, b) ==
    LET low == {x \in S : x.base <= b}
    IN  IF Cardinality(low) >= n THEN low ELSE Lowest(S, n, 2 * b)

\* sorted(list(perfect_pairs))[:100]
Sample(pairs) ==
    IF Cardinality(pairs) <= SampleSize
    THEN FirstSorted(pairs, SampleSize)
    ELSE FirstSorted(Lowest(pairs, SampleSize, SampleSize), SampleSize)

\* _format_result: the details dictionary.  ext1_only and ext2_only are the
\* lists ext1_only_files and ext2_only_files, which hold every stem of their
\* sets; perfect_pairs is the set the summary counts, of which the
\* dictionary keeps perfect_pairs_sample only
FormatResult(ext1, ext2, files1, files2, pairs, only1, only2, total_unique, match_rate, mode) ==
    [kind |-> "details",
     mode |-> mode,
     ext1 |-> ext1,
     ext2 |-> ext2,
     ext1_count |-> Cardinality(files1),
     ext2_count |-> Cardinality(files2),
     perfect_pairs |-> pairs,
     perfect_pairs_sample |-> Sample(pairs),
     ext1_only |-> only1,
     ext2_only |-> only2,
     summary_perfect_pairs |-> Cardinality(pairs),
     summary_ext1_only |-> Cardinality(only1),
     summary_ext2_only |-> Cardinality(only2),
     total_unique |-> total_unique,
     match_rate |-> match_rate,
     match_rate_percent |-> Round2(match_rate)]

\* the body shared by check_single_folder and check_dual_folders after the
\* existence checks: collect, take stems, reconcile, rate, format
Reconcile(dir1, dir2, ext1, ext2, mode) ==
    LET files_ext1 == get_files_by_extension(dir1, ext1)
        files_ext2 == get_files_by_extension(IF mode = "single" THEN dir1 ELSE dir2, ext2)
        basenames_ext1 == Basenames(files_ext1)
        basenames_ext2 == Basenames(files_ext2)
        perfect_pairs == PerfectPairs(basenames_ext1, basenames_ext2)
        ext1_only == Ext1Only(basenames_ext1, basenames_ext2)
        ext2_only == Ext2Only(basenames_ext1, basenames_ext2)
        total_unique == TotalUnique(basenames_ext1, basenames_ext2)
        match_rate == MatchRate(Cardinality(perfect_pairs), total_unique)
    IN  FormatResult(CleanExt(ext1), CleanExt(ext2), files_ext1, files_ext2,
                     perfect_pairs, ext1_only, ext2_only, total_unique, match_rate, mode)

(***************************************************************************)
(* JSON field fixer (restore_specific_dates.py, class JSONFieldFixer).     *)
(*                                                                         *)
(* JSON values: text, integer, null.  A parsed object is the sequence of   *)
(* its (key, value) pairs in order (a Python dict keeps insertion order).  *)
(* The bytes of a file are its formatting (fmt), what a JSON parser makes  *)
(* of them (kind: "object", "array", or "garbage" when they do not parse)  *)
(* and the pairs of the object.                                            *)
(***************************************************************************)
JStr(s) == [t |-> "str", s |-> s, n |-> 0]
JNum(n) == [t |-> "num", s |-> "", n |-> n]
\* JSON null, which json.load reads as Python None
JNull == [t |-> "null", s |-> "", n |-> 0]

\* mutant: no coercion, a non-text value has no text
PyStr_TextOnly(v) == IF v.t = "str" THEN v.s ELSE "<not text>"

\* Python str(value)
PyStr(v) ==
    CASE v.t = "str" -> v.s
      [] v.t = "num" -> ToString(v.n)
      [] OTHER -> "None"

HasKey(pairs, key) == \E i \in 1..Len(pairs) : pairs[i].k = key

\* data.get(key, default)
DictGet(pairs, key, default) ==
    IF HasKey(pairs, key)
    THEN pairs[CHOOSE i \in 1..Len(pairs) : pairs[i].k = key].v
    ELSE default

\* mutant: the pair is appended even when the key exists
DictSet_AppendOnly(pairs, key, value) == Append(pairs, [k |-> key, v |-> value])

\* data[key] = value: in place when the key exists, appended otherwise
DictSet(pairs, key, value) ==
    IF HasKey(pairs, key)
    THEN [i \in 1..Len(pairs) |-> IF pairs[i].k = key THEN [k |-> key, v |-> value] ELSE pairs[i]]
    ELSE Append(pairs, [k |-> key, v |-> value])

\* json.dump(data, f, ensure_ascii=False, indent=2): the bytes written
json_dump(pairs) == [fmt |-> "indent2", kind |-> "object", pairs |-> pairs]

\* what open(path, 'w') followed by a write that fails midway leaves behind
Truncated == [fmt |-> "partial", kind |-> "garbage", pairs |-> <<>>]

\* A path: the directory below base_path, the stem of the original file and
\* the timestamps of the "_backup_<timestamp>" suffixes appended to it; every
\* such file is named <stem>[_backup_<ts>]*.json.
NoPath == [dir |-> <<>>, stem |-> "", bk |-> <<>>]

\* backup_path = f"{stem}_backup_{timestamp}{suffix}" beside the file
BackupPath(file_path, timestamp) == [file_path EXCEPT !.bk = Append(@, timestamp)]

\* the file system with `content` written at `path`
Put(F, path, content) ==
    [q \in DOMAIN F \cup {path} |-> IF q = path THEN content ELSE F[q]]

IsPrefix(d, e) == Len(d) <= Len(e) /\ SubSeq(e, 1, Len(d)) = d

\* get_json_files: folder.glob("*.json") or folder.rglob("*.json")
get_json_files(F, folder_path, recursive) ==
    {p \in DOMAIN F : IF recursive THEN IsPrefix(folder_path, p.dir) ELSE p.dir = folder_path}

\* The order in which glob and rglob yield the files: rglob yields the files
\* of a directory before those of the directories below it, and a directory's
\* files are taken in the order of their names ("x.json" before
\* "x_backup_<ts>.json", and a backup before the later ones of the same file).
StemOrder == <<"none", "x", "y">>
StemRank(stem) == CHOOSE i \in 1..Len(StemOrder) : StemOrder[i] = stem

SuffixesBefore(s, t) ==
    \E k \in 0..Len(s) :
        /\ k <= Len(t)
        /\ SubSeq(s, 1, k) = SubSeq(t, 1, k)
        /\ \/ k = Len(s) /\ k < Len(t)
           \/ k < Len(s) /\ k < Len(t) /\ s[k + 1] < t[k + 1]

ListedBefore(p, q) ==
    IF p.dir # q.dir THEN Len(p.dir) < Len(q.dir)
    ELSE IF p.stem # q.stem THEN StemRank(p.stem) < StemRank(q.stem)
    ELSE SuffixesBefore(p.bk, q.bk)

FirstListed(S) == CHOOSE p \in S : \A q \in S \ {p} : ListedBefore(p, q)

\* mutant: the scan keeps every record that parses, target or not
scan_for_target_values_AllRecords(F, folder_path, field_name, target_values, recursive) ==
    [p \in {q \in get_json_files(F, folder_path, recursive) : F[q].kind = "object"} |->
        DictGet(F[p].pairs, field_name, JStr(""))]

\* scan_for_target_values: {file: current value} for the files whose value,
\* as text, is one of target_values; a file that does not load, or is not an
\* object, is logged and left out
scan_for_target_values(F, folder_path, field_name, target_values, recursive) ==
    LET hits == {p \in get_json_files(F, folder_path, recursive) :
                    /\ F[p].kind = "object"
                    /\ PyStr(DictGet(F[p].pairs, field_name, JStr(""))) \in target_values}
    IN  [p \in hits |-> DictGet(F[p].pairs, field_name, JStr(""))]

\* backup_file: shutil.copy2 to the backup path (an existing file of that
\* name is overwritten); None when backups are off or the copy fails
backup_file(F, file_path, backup, io, timestamp) ==
    IF ~backup
    THEN [fs |-> F, path |-> NoPath]
    ELSE IF io.copy = "ok"
         THEN [fs |-> Put(F, BackupPath(file_path, timestamp), F[file_path]),
               path |-> BackupPath(file_path, timestamp)]
         ELSE [fs |-> F, path |-> NoPath]

\* the result dictionary fix_file starts from
InitialResult(file_path, new_value) ==
    [file |-> file_path, status |-> "failed", original_value |-> JNull,
     new_value |-> new_value, backup_path |-> NoPath, error |-> "None"]

\* mutant: the dry-run test comes before the target test
fix_file_DryRunFirst(F, file_path, field_name, target_values, new_value, dry_run, backup, io, timestamp) ==
    LET result == InitialResult(file_path, new_value)
    IN  IF file_path \notin DOMAIN F \/ F[file_path].kind # "object"
        THEN [fs |-> F, result |-> [result EXCEPT !.error = "Exception"]]
        ELSE LET data == F[file_path].pairs
                 original_value == DictGet(data, field_name, JStr(""))
                 found == [result EXCEPT !.original_value = original_value]
             IN  IF dry_run
                 THEN [fs |-> F, result |-> [found EXCEPT !.status = "dry_run"]]
                 ELSE IF PyStr(original_value) \notin target_values
                 THEN [fs |-> F, result |-> [found EXCEPT !.status = "skipped", !.error = "Not a target value"]]
                 ELSE [fs |-> Put(F, file_path, json_dump(DictSet(data, field_name, JStr(new_value)))),
                       result |-> [found EXCEPT !.status = "success"]]

\* mutant: the write happens before the dry-run test
fix_file_WriteInDryRun(F, file_path, field_name, target_values, new_value, dry_run, backup, io, timestamp) ==
    LET result == InitialResult(file_path, new_value)
    IN  IF file_path \notin DOMAIN F \/ F[file_path].kind # "object"
        THEN [fs |-> F, result |-> [result EXCEPT !.error = "Exception"]]
        ELSE LET data == F[file_path].pairs
                 original_value == DictGet(data, field_name, JStr(""))
                 found == [result EXCEPT !.original_value = original_value]
             IN  IF PyStr(original_value) \notin target_values
                 THEN [fs |-> F, result |-> [found EXCEPT !.status = "skipped", !.error = "Not a target value"]]
                 ELSE [fs |-> Put(F, file_path, json_dump(DictSet(data, field_name, JStr(new_value)))),
                       result |-> [found EXCEPT !.status = IF dry_run THEN "dry_run" ELSE "success"]]

\* mutant: the old value is not recorded in the result
fix_file_NoOriginal(F, file_path, field_name, target_values, new_value, dry_run, backup, io, timestamp) ==
    LET result == InitialResult(file_path, new_value)
    IN  IF file_path \notin DOMAIN F \/ F[file_path].kind # "object"
        THEN [fs |-> F, result |-> [result EXCEPT !.error = "Exception"]]
        ELSE LET data == F[file_path].pairs
                 original_value == DictGet(data, field_name, JStr(""))
             IN  IF PyStr(original_value) \notin target_values
                 THEN [fs |-> F, result |-> [result EXCEPT !.status = "skipped", !.error = "Not a target value"]]
                 ELSE IF dry_run
                      THEN [fs |-> F, result |-> [result EXCEPT !.status = "dry_run"]]
                      ELSE LET made == backup_file(F, file_path, backup, io, timestamp)
                           IN  [fs |-> Put(made.fs, file_path, json_dump(DictSet(data, field_name, JStr(new_value)))),
                                result |-> [result EXCEPT !.status = "success", !.backup_path = made.path]]

\* mutant: a non-target record is backed up before it is skipped
fix_file_BackupBeforeTest(F, file_path, field_name, target_values, new_value, dry_run, backup, io, timestamp) ==
    LET result == InitialResult(file_path, new_value)
    IN  IF file_path \notin DOMAIN F \/ F[file_path].kind # "object"
        THEN [fs |-> F, result |-> [result EXCEPT !.error = "Exception"]]
        ELSE LET data == F[file_path].pairs
                 original_value == DictGet(data, field_name, JStr(""))
                 found == [result EXCEPT !.original_value = original_value]
                 made == backup_file(F, file_path, backup /\ ~dry_run, io, timestamp)
             IN  IF PyStr(original_value) \notin target_values
                 THEN [fs |-> made.fs, result |-> [found EXCEPT !.status = "skipped", !.error = "Not a target value"]]
                 ELSE IF dry_run
                      THEN [fs |-> F, result |-> [found EXCEPT !.status = "dry_run"]]
                      ELSE [fs |-> Put(made.fs, file_path, json_dump(DictSet(data, field_name, JStr(new_value)))),
                            result |-> [found EXCEPT !.status = "success", !.backup_path = made.path]]

\* mutant: the copy is made after the file has been rewritten
fix_file_BackupAfterWrite(F, file_path, field_name, target_values, new_value, dry_run, backup, io, timestamp) ==
    LET result == InitialResult(file_path, new_value)
    IN  IF file_path \notin DOMAIN F \/ F[file_path].kind # "object"
        THEN [fs |-> F, result |-> [result EXCEPT !.error = "Exception"]]
        ELSE LET data == F[file_path].pairs
                 original_value == DictGet(data, field_name, JStr(""))
                 found == [result EXCEPT !.original_value = original_value]
             IN  IF PyStr(original_value) \notin target_values
                 THEN [fs |-> F, result |-> [found EXCEPT !.status = "skipped", !.error = "Not a target value"]]
                 ELSE IF dry_run
                 THEN [fs |-> F, result |-> [found EXCEPT !.status = "dry_run"]]
                 ELSE LET written == Put(F, file_path, json_dump(DictSet(data, field_name, JStr(new_value))))
                          made == backup_file(written, file_path, backup, io, timestamp)
                      IN  [fs |-> made.fs,
                           result |-> [found EXCEPT !.status = "success", !.backup_path = made.path]]

\* mutant: a failed copy aborts the repair
fix_file_AbortOnBackupFailure(F, file_path, field_name, target_values, new_value, dry_run, backup, io, timestamp) ==
    LET result == InitialResult(file_path, new_value)
    IN  IF file_path \notin DOMAIN F \/ F[file_path].kind # "object"
        THEN [fs |-> F, result |-> [result EXCEPT !.error = "Exception"]]
        ELSE LET data == F[file_path].pairs
                 original_value == DictGet(data, field_name, JStr(""))
                 found == [result EXCEPT !.original_value = original_value]
                 made == backup_file(F, file_path, backup, io, timestamp)
             IN  IF PyStr(original_value) \notin target_values
                 THEN [fs |-> F, result |-> [found EXCEPT !.status = "skipped", !.error = "Not a target value"]]
                 ELSE IF dry_run
                 THEN [fs |-> F, result |-> [found EXCEPT !.status = "dry_run"]]
                 ELSE IF backup /\ made.path = NoPath
                 THEN [fs |-> F, result |-> [found EXCEPT !.error = "Backup failed"]]
                 ELSE [fs |-> Put(made.fs, file_path, json_dump(DictSet(data, field_name, JStr(new_value)))),
                       result |-> [found EXCEPT !.status = "success", !.backup_path = made.path]]

\* fix_file on the file system F at time `timestamp`; `io` says how the
\* environment answers the copy and the write.  Returns the file system left
\* behind and the result dictionary.
\*   io.write = "ok"      the file is rewritten
\*   io.write = "denied"  open(file_path, 'w') raises, the file is intact
\*   io.write = "nospace" the file is opened (truncated) and the dump fails
fix_file(F, file_path, field_name, target_values, new_value, dry_run, backup, io, timestamp) ==
    LET result == InitialResult(file_path, new_value)
    IN  IF file_path \notin DOMAIN F
        THEN [fs |-> F, result |-> [result EXCEPT !.error = "FileNotFoundError"]]
        ELSE IF F[file_path].kind = "garbage"
        THEN [fs |-> F, result |-> [result EXCEPT !.error = "JSONDecodeError"]]
        ELSE IF F[file_path].kind # "object"
        THEN [fs |-> F, result |-> [result EXCEPT !.error = "AttributeError"]]
        ELSE LET data == F[file_path].pairs
                 original_value == DictGet(data, field_name, JStr(""))
                 found == [result EXCEPT !.original_value = original_value]
             IN  IF PyStr(original_value) \notin target_values
                 THEN [fs |-> F,
                       result |-> [found EXCEPT !.status = "skipped", !.error = "Not a target value"]]
                 ELSE IF dry_run
                 THEN [fs |-> F, result |-> [found EXCEPT !.status = "dry_run"]]
                 ELSE LET made == backup_file(F, file_path, backup, io, timestamp)
                          saved == [found EXCEPT !.backup_path = made.path]
                          data2 == DictSet(data, field_name, JStr(new_value))
                      IN  CASE io.write = "ok" ->
                                 [fs |-> Put(made.fs, file_path, json_dump(data2)),
                                  result |-> [saved EXCEPT !.status = "success"]]
                            [] io.write = "denied" ->
                                 [fs |-> made.fs,
                                  result |-> [saved EXCEPT !.error = "PermissionError"]]
                            [] OTHER ->
                                 [fs |-> Put(made.fs, file_path, Truncated),
                                  result |-> [saved EXCEPT !.error = "OSError"]]

\* save_results: the numbers written under the statistics heading of the
\* log and in the summary (all, repaired or previewed, failed)
save_results_counts(results) ==
    [total |-> Len(results),
     success |-> Cardinality({i \in 1..Len(results) :
                                results[i].status \in {"success", "dry_run"}}),
     failed |-> Cardinality({i \in 1..Len(results) : results[i].status = "failed"})]

(***************************************************************************)
(* Inputs and initial states of the fixer.                                 *)
(***************************************************************************)
FIELD == "date"
TYPO == "20169715"
FIXED == "20160715"

Pair(key, value) == [k |-> key, v |-> value]
Compact(pairs) == [fmt |-> "compact", kind |-> "object", pairs |-> pairs]

DocTypo == Compact(<<Pair(FIELD, JStr(TYPO)), Pair("title", JStr("news"))>>)
DocNumber == Compact(<<Pair("title", JStr("news")), Pair(FIELD, JNum(20169715))>>)
DocGood == Compact(<<Pair(FIELD, JStr("20200101"))>>)
DocNoField == Compact(<<Pair("title", JStr("news"))>>)
DocNull == Compact(<<Pair(FIELD, JNull)>>)
DocGarbage == [fmt |-> "compact", kind |-> "garbage", pairs |-> <<>>]
DocArray == [fmt |-> "compact", kind |-> "array", pairs |-> <<>>]

FileX == [dir |-> <<"a">>, stem |-> "x", bk |-> <<>>]
FileY == [dir |-> <<"a", "s">>, stem |-> "y", bk |-> <<>>]
FileMissing == [dir |-> <<"a">>, stem |-> "none", bk |-> <<>>]

\* the directories that exist below base_path (base_path itself is <<>>)
ExistingDirs == {<<>>, <<"a">>, <<"a", "s">>}

EmptyFs == [p \in {} |-> Truncated]

InitialFileSystems ==
    {[p \in ({FileX} \cap cx.at) \cup ({FileY} \cap cy.at) |-> IF p = FileX THEN cx.doc ELSE cy.doc] :
        cx \in {[at |-> {FileX}, doc |-> d] :
                   d \in {DocTypo, DocNumber, DocGood, DocNoField, DocNull, DocGarbage, DocArray}}
                 \cup {[at |-> {}, doc |-> DocGood]},
        cy \in {[at |-> {FileY}, doc |-> d] : d \in {DocTypo}}
                 \cup {[at |-> {}, doc |-> DocGood]}}

\* the repair jobs tried: --field, --find, --replace, --dry-run, --no-backup
Jobs ==
    {[field_name |-> FIELD, target_values |-> tv, new_value |-> FIXED,
      dry_run |-> d, backup |-> b] :
        tv \in {{TYPO, ""}, {"None", FIXED}}, d \in BOOLEAN, b \in BOOLEAN}

\* --folders: absent (None), or a list of folders below base_path
FolderNames == {<<>>, << <<"gone">>, <<"a">> >>, << <<"gone">> >>,
                << <<"a">>, <<"a", "s">> >>}

IoOk == [copy |-> "ok", write |-> "ok"]

\* how the environment may answer the copy and the write of one repair;
\* only the operations the repair performs are varied, and a failure is
\* possible while fewer than MaxFaults operations have failed
Failures(io) == (IF io.copy = "ok" THEN 0 ELSE 1) + (IF io.write = "ok" THEN 0 ELSE 1)

IoOutcomes(dry_run, backup) ==
    IF dry_run
    THEN {IoOk}
    ELSE {io \in [copy : IF backup THEN {"ok", "fail"} ELSE {"ok"},
                  write : {"ok", "denied", "nospace"}] :
             faults + Failures(io) <= MaxFaults}

IdleJob ==
    [field_name |-> "", target_values |-> {}, new_value |-> "",
     dry_run |-> FALSE, backup |-> FALSE]

NoLast ==
    [called |-> FALSE, path |-> NoPath, dry_run |-> FALSE, backup |-> FALSE,
     io |-> IoOk, at |-> 0, before |-> EmptyFs, result |-> InitialResult(NoPath, "")]

NoRun ==
    [pc |-> "idle", folder_names |-> <<>>, recursive |-> FALSE,
     folders |-> <<>>, idx |-> 0, pending |-> {}, all_results |-> <<>>,
     success_count |-> 0, failed_count |-> 0,
     enumerated |-> {}, returned |-> "nothing"]


(***************************************************************************)
(* The validator at rest.                                                  *)
(***************************************************************************)
IdleConf ==
    [base_exists |-> FALSE, date_formats |-> <<>>, year_range |-> <<0, 0>>,
     target_fields |-> <<>>]

NoValFs == [p \in {} |-> [kind |-> "garbage", pairs |-> <<>>]]

NoValCall == [op |-> "none"]

NoValRun ==
    [pc |-> "idle", folder_names |-> <<>>, recursive |-> FALSE, folders |-> <<>>,
     idx |-> 0, pending |-> {}, enumerated |-> {}, all_results |-> <<>>,
     folder_files |-> 0, field_counters |-> <<>>,
     returned |-> "nothing", error |-> "None", exit_code |-> 0]

\* the video stats analyzer at rest: no base path, an empty output
\* directory and no VideoStatsAnalyzer constructed
NoAnalyzer ==
    [pc |-> "idle", runs |-> 0, list |-> FALSE, start_date |-> 0, end_date |-> 0,
     skip_processed |-> TRUE, folders |-> <<>>, idx |-> 0, loaded |-> {},
     processed_folders |-> {}, success_count |-> 0, skip_count |-> 0,
     passed |-> <<>>, error |-> "None"]

StatsIdle ==
    /\ uploads = [exists |-> FALSE, folders |-> << >>]
    /\ stats_output = [processed_log |-> [exists |-> FALSE, names |-> {}], files |-> {}]
    /\ analyzer = NoAnalyzer

ValIdle ==
    /\ valConf = IdleConf
    /\ valFs = NoValFs
    /\ valCall = NoValCall
    /\ valRun = NoValRun

(***************************************************************************)
(* Inputs of the pair checker.                                             *)
(***************************************************************************)
DirNames == {"d1", "d2", "gone"}
ExtArgs == {[dots |-> 0, body |-> "mp4"], [dots |-> 1, body |-> "MP4"],
            [dots |-> 0, body |-> "json"]}

SmallNames ==
    {[base |-> b, exts |-> <<x>>] : b \in 1..MaxStem, x \in {"mp4", "json"}}
      \cup {[base |-> 1, exts |-> <<"MP4">>],
            [base |-> 1, exts |-> <<"old", "json">>],
            [base |-> 2, exts |-> <<>>]}

SmallEntries ==
    {[name |-> n, isFile |-> TRUE] : n \in SmallNames}
      \cup {[name |-> [base |-> 2, exts |-> <<"json">>], isFile |-> FALSE]}

\* the entries of a directory are unique by name
UniqueNames(S) == \A e1, e2 \in S : e1.name = e2.name => e1 = e2

SmallDirs ==
    {S \in SUBSET SmallEntries : Cardinality(S) <= MaxEntries /\ UniqueNames(S)}

\* the contents tried for the second directory of a dual check
ManifestDirs ==
    {{},
     {[name |-> [base |-> 1, exts |-> <<"json">>], isFile |-> TRUE]},
     {[name |-> [base |-> 2, exts |-> <<"JSON">>], isFile |-> TRUE],
      [name |-> [base |-> 1, exts |-> <<"old", "json">>], isFile |-> TRUE]}}

\* a bulk directory: video_k.mp4 for every k in 1..n and its manifest
\* video_k.json for every k in 2..n (video_1 has no manifest), listed in name
\* order: entry 1 is video_1.mp4, entries 2j and 2j+1 are video_(j+1).json and
\* video_(j+1).mp4
BulkEntry(i) ==
    [name |-> [base |-> IF i = 1 THEN 1 ELSE (i \div 2) + 1,
               exts |-> IF i > 1 /\ i % 2 = 0 THEN <<"json">> ELSE <<"mp4">>],
     isFile |-> TRUE]

BulkDir(n) == {BulkEntry(i) : i \in 1..(2 * n - 1)}

BulkDirs == {BulkDir(BulkStems)}

PairInit ==
    /\ \/ \E S1 \in SmallDirs, S2 \in ManifestDirs :
              pairDirs = [d \in {"d1", "d2"} |-> IF d = "d1" THEN S1 ELSE S2]
       \/ \E S1 \in BulkDirs : pairDirs = [d \in {"d1"} |-> S1]
    /\ pairCall = NoCall
    /\ pairResult = NoResult
    /\ fs = EmptyFs
    /\ job = IdleJob
    /\ now = 0
    /\ calls = 0
    /\ faults = 0
    /\ last = NoLast
    /\ run = NoRun
    /\ ValIdle
    /\ StatsIdle

\* One run of the tool makes one check (main: --mode single or dual) and
\* exits; the directories are not modified by it.
\* check_single_folder(directory, ext1, ext2)
check_single_folder(directory, ext1, ext2) ==
    /\ pairCall = NoCall
    /\ pairCall' = [mode |-> "single", dir1 |-> directory, dir2 |-> directory,
                    ext1 |-> ext1, ext2 |-> ext2]
    /\ pairResult' = IF directory \notin DOMAIN pairDirs
                     THEN PyNone
                     ELSE Reconcile(directory, directory, ext1, ext2, "single")
    /\ UNCHANGED <<pairDirs, fixVars, valVars, uploads, stats_output, analyzer>>

\* check_dual_folders(directory1, directory2, ext1, ext2)
check_dual_folders(directory1, directory2, ext1, ext2) ==
    /\ pairCall = NoCall
    /\ pairCall' = [mode |-> "dual", dir1 |-> directory1, dir2 |-> directory2,
                    ext1 |-> ext1, ext2 |-> ext2]
    /\ pairResult' = IF directory1 \notin DOMAIN pairDirs \/ directory2 \notin DOMAIN pairDirs
                     THEN PyNone
                     ELSE Reconcile(directory1, directory2, ext1, ext2, "dual")
    /\ UNCHANGED <<pairDirs, fixVars, valVars, uploads, stats_output, analyzer>>

CheckSingle ==
    \E d \in DirNames, e1 \in ExtArgs, e2 \in ExtArgs : check_single_folder(d, e1, e2)

CheckDual ==
    \E d1 \in DirNames, d2 \in DirNames, e1 \in ExtArgs, e2 \in ExtArgs :
        check_dual_folders(d1, d2, e1, e2)

PairNext == CheckSingle \/ CheckDual

SpecPair == PairInit /\ [][PairNext]_vars

(***************************************************************************)
(* The fixer's state machine.                                              *)
(***************************************************************************)
FixInit ==
    /\ fs \in InitialFileSystems
    /\ job \in Jobs
    /\ now = 0
    /\ calls = 0
    /\ faults = 0
    /\ last = NoLast
    /\ run = NoRun
    /\ pairDirs = [d \in {} |-> {}]
    /\ pairCall = NoCall
    /\ pairResult = NoResult
    /\ ValIdle
    /\ StatsIdle

\* the record of one fix_file call: its arguments, the file system before
\* it and the result it returned
Called(path, dry_run, backup, io, out) ==
    [called |-> TRUE, path |-> path, dry_run |-> dry_run, backup |-> backup,
     io |-> io, at |-> now, before |-> fs, result |-> out.result]

\* the clock (datetime.now(), to the second) advances
Tick ==
    /\ now < MaxClock
    /\ now' = now + 1
    /\ UNCHANGED <<fs, job, calls, faults, last, run, pairVars, valVars, uploads, stats_output, analyzer>>

\* JSONFieldFixer(base_path, backup=..., dry_run=...).fix_file(file_path,
\* field_name, target_values, new_value), called on its own
CallFixFile ==
    /\ run.pc \in {"idle", "done"}
    /\ calls < MaxCalls
    /\ \E path \in DOMAIN fs \cup {FileMissing}, io \in IoOutcomes(job.dry_run, job.backup) :
           LET out == fix_file(fs, path, job.field_name, job.target_values, job.new_value,
                               job.dry_run, job.backup, io, now)
           IN  /\ fs' = out.fs
               /\ last' = Called(path, job.dry_run, job.backup, io, out)
               /\ faults' = faults + Failures(io)
    /\ calls' = calls + 1
    /\ run' = NoRun
    /\ UNCHANGED <<job, now, pairVars, valVars, uploads, stats_output, analyzer>>

\* fix_folders, up to the loop over the folders: the folders that exist are
\* kept; when folder names were given and none exists, {} is returned
fix_folders_start ==
    /\ run.pc \in {"idle", "done"}
    /\ calls < MaxCalls
    /\ \E folder_names \in FolderNames, recursive \in BOOLEAN :
         LET folders == IF folder_names # <<>>
                        THEN SelectSeq(folder_names, LAMBDA f : f \in ExistingDirs)
                        ELSE << <<>> >>
             begun == [NoRun EXCEPT !.folder_names = folder_names,
                                    !.recursive = recursive, !.folders = folders]
         IN  run' = IF folders = <<>>
                    THEN [begun EXCEPT !.pc = "done", !.returned = "empty"]
                    ELSE [begun EXCEPT !.pc = "scan", !.idx = 1]
    /\ calls' = calls + 1
    /\ last' = NoLast
    /\ UNCHANGED <<fs, job, now, faults, pairVars, valVars, uploads, stats_output, analyzer>>

\* one turn of the loop over the folders: scan the folder; with no target
\* file, continue with the next folder, else go on to fix its target files
fix_folders_scan ==
    /\ run.pc = "scan"
    /\ run.idx <= Len(run.folders)
    /\ LET folder == run.folders[run.idx]
           target_files == scan_for_target_values(fs, folder, job.field_name,
                                                  job.target_values, run.recursive)
           seen == {[pass |-> run.idx, path |-> p, content |-> fs[p],
                     selected |-> p \in DOMAIN target_files] :
                       p \in get_json_files(fs, folder, run.recursive)}
       IN  run' = IF DOMAIN target_files = {}
                  THEN [run EXCEPT !.idx = @ + 1, !.enumerated = @ \cup seen]
                  ELSE [run EXCEPT !.pc = "fix", !.pending = DOMAIN target_files,
                                   !.success_count = 0, !.failed_count = 0,
                                   !.enumerated = @ \cup seen]
    /\ UNCHANGED <<fs, job, now, calls, faults, last, pairVars, valVars, uploads, stats_output, analyzer>>

\* mutant: a failed repair ends the run
fix_folders_fix_StopOnFailure ==
    /\ run.pc = "fix"
    /\ \E io \in IoOutcomes(job.dry_run, job.backup) :
         LET file_path == FirstListed(run.pending)
             out == fix_file(fs, file_path, job.field_name, job.target_values, job.new_value,
                             job.dry_run, job.backup, io, now)
             rest == IF out.result.status = "failed" THEN {} ELSE run.pending \ {file_path}
         IN  /\ fs' = out.fs
             /\ last' = Called(file_path, job.dry_run, job.backup, io, out)
             /\ faults' = faults + Failures(io)
             /\ run' = [run EXCEPT !.all_results = Append(@, out.result),
                                   !.success_count =
                                       IF out.result.status \in {"success", "dry_run"}
                                       THEN @ + 1 ELSE @,
                                   !.failed_count =
                                       IF out.result.status \in {"success", "dry_run"}
                                       THEN @ ELSE @ + 1,
                                   !.pending = rest,
                                   !.pc = IF out.result.status = "failed" THEN "done"
                                          ELSE IF rest = {} THEN "scan" ELSE "fix",
                                   !.returned = IF out.result.status = "failed"
                                                THEN "results" ELSE @,
                                   !.idx = IF rest = {} THEN @ + 1 ELSE @]
    /\ UNCHANGED <<job, now, calls, pairVars, valVars, uploads, stats_output, analyzer>>

\* one turn of the loop over target_files: fix_file on the next file, in the
\* order of the listing, and append its result
fix_folders_fix ==
    /\ run.pc = "fix"
    /\ \E io \in IoOutcomes(job.dry_run, job.backup) :
         LET file_path == FirstListed(run.pending)
             out == fix_file(fs, file_path, job.field_name, job.target_values, job.new_value,
                             job.dry_run, job.backup, io, now)
             rest == run.pending \ {file_path}
         IN  /\ fs' = out.fs
             /\ last' = Called(file_path, job.dry_run, job.backup, io, out)
             /\ faults' = faults + Failures(io)
             /\ run' = [run EXCEPT !.all_results = Append(@, out.result),
                                   !.success_count =
                                       IF out.result.status \in {"success", "dry_run"}
                                       THEN @ + 1 ELSE @,
                                   !.failed_count =
                                       IF out.result.status \in {"success", "dry_run"}
                                       THEN @ ELSE @ + 1,
                                   !.pending = rest,
                                   !.pc = IF rest = {} THEN "scan" ELSE "fix",
                                   !.idx = IF rest = {} THEN @ + 1 ELSE @]
    /\ UNCHANGED <<job, now, calls, pairVars, valVars, uploads, stats_output, analyzer>>

\* the loop over the folders is over: the results are returned
fix_folders_return ==
    /\ run.pc = "scan"
    /\ run.idx > Len(run.folders)
    /\ run' = [run EXCEPT !.pc = "done", !.returned = "results"]
    /\ UNCHANGED <<fs, job, now, calls, faults, last, pairVars, valVars, uploads, stats_output, analyzer>>

FixNext ==
    \/ Tick
    \/ CallFixFile
    \/ fix_folders_start
    \/ fix_folders_scan
    \/ fix_folders_fix
    \/ fix_folders_return

SpecFix == FixInit /\ [][FixNext]_vars

(***************************************************************************)
(* Claims about the pair checker (specification SpecPair).                 *)
(***************************************************************************)
Returned == pairResult.kind = "details"

\* the key sets A and B the check enumerated for its two sides
KeysA == Basenames(get_files_by_extension(pairCall.dir1, pairCall.ext1))
KeysB == Basenames(get_files_by_extension(pairCall.dir2, pairCall.ext2))

\* C1: the three sets a pair check returns (matched, aOnly, bOnly) cover
\* exactly A \cup B and are pairwise disjoint, for check_single_folder and
\* check_dual_folders alike.
C1_Partition ==
    Returned =>
        /\ pairResult.perfect_pairs \cup pairResult.ext1_only \cup pairResult.ext2_only
              = KeysA \cup KeysB
        /\ pairResult.perfect_pairs \cap pairResult.ext1_only = {}
        /\ pairResult.perfect_pairs \cap pairResult.ext2_only = {}
        /\ pairResult.ext1_only \cap pairResult.ext2_only = {}

\* a dual check whose three sets are all non-empty
C1_Witness ==
    /\ Returned
    /\ pairCall.mode = "dual"
    /\ pairResult.perfect_pairs # {}
    /\ pairResult.ext1_only # {}
    /\ pairResult.ext2_only # {}

\* The enumeration of section 4.1, written from the contract: the stems of
\* the regular files directly in the directory whose suffix matches the
\* extension case-insensitively, with or without a leading dot.
ContractKeys(dir, ext) ==
    PySet({[base |-> e.name.base, exts |-> SubSeq(e.name.exts, 1, Len(e.name.exts) - 1)] :
        e \in {x \in pairDirs[dir] :
                  /\ x.isFile
                  /\ Len(x.name.exts) > 0
                  /\ Lower(x.name.exts[Len(x.name.exts)]) = Lower(ext.body)}})

Video(k) == [base |-> k, exts |-> <<>>]
File(k, x) == [name |-> [base |-> k, exts |-> <<x>>], isFile |-> TRUE]

\* C2: matched = A \cap B, aOnly = A - B, bOnly = B - A and
\* matchRatePercent = |matched| / |A \cup B| * 100; a directory holding only
\* a.mp4, a.json and b.mp4 yields matched = {a}, aOnly = {b}, bOnly = {} and
\* the rate 50.00.
C2_SetAlgebra ==
    Returned =>
        LET A == ContractKeys(pairCall.dir1, pairCall.ext1)
            B == ContractKeys(pairCall.dir2, pairCall.ext2)
            t == Cardinality(A \cup B)
        IN  /\ pairResult.perfect_pairs = A \cap B
            /\ pairResult.ext1_only = A \ B
            /\ pairResult.ext2_only = B \ A
            /\ t > 0 => pairResult.match_rate
                           = [num |-> Cardinality(A \cap B) * 100, den |-> t]
            /\ ( /\ pairCall.mode = "single"
                 /\ pairDirs[pairCall.dir1] = {File(1, "mp4"), File(1, "json"), File(2, "mp4")}
                 /\ CleanExt(pairCall.ext1) = "mp4"
                 /\ CleanExt(pairCall.ext2) = "json" )
               => /\ pairResult.perfect_pairs = {Video(1)}
                  /\ pairResult.ext1_only = {Video(2)}
                  /\ pairResult.ext2_only = {}
                  /\ pairResult.match_rate_percent = 5000

\* the example directory, checked with a dotted upper-case extension
C2_Witness ==
    /\ Returned
    /\ pairCall.mode = "single"
    /\ pairDirs[pairCall.dir1] = {File(1, "mp4"), File(1, "json"), File(2, "mp4")}
    /\ pairCall.ext1 = [dots |-> 1, body |-> "MP4"]
    /\ CleanExt(pairCall.ext2) = "json"
    /\ pairResult.match_rate_percent = 5000

NoUnmatched == pairResult.ext1_only = {} /\ pairResult.ext2_only = {}

\* C3 as stated: the reported rate (rounded to two decimals, here in
\* hundredths) is 0 when A \cup B is empty and is 100 if and only if no key
\* is unmatched on either side and there is at least one key.
C3_AsStated ==
    Returned =>
        /\ pairResult.total_unique = 0 => pairResult.match_rate_percent = 0
        /\ pairResult.match_rate_percent = 10000
              <=> (NoUnmatched /\ pairResult.total_unique > 0)

\* C3 as amended: the reported rate is 0 when A \cup B is empty; it is 100
\* whenever no key is unmatched and there is at least one key; the unrounded
\* match rate is 100 exactly in that case; and a reported 100 with unmatched
\* keys means the unmatched keys are at most 0.005% of all keys.
C3_RoundedRate ==
    Returned =>
        /\ pairResult.total_unique = 0 => pairResult.match_rate_percent = 0
        /\ (NoUnmatched /\ pairResult.total_unique > 0)
              => pairResult.match_rate_percent = 10000
        /\ pairResult.match_rate.num = 100 * pairResult.match_rate.den
              <=> (NoUnmatched /\ pairResult.total_unique > 0)
        /\ pairResult.match_rate_percent = 10000
              => /\ pairResult.total_unique > 0
                 /\ 20000 * (pairResult.summary_ext1_only + pairResult.summary_ext2_only)
                       <= pairResult.total_unique

\* a report of 100.00 with an unmatched key
C3_Witness ==
    /\ Returned
    /\ pairResult.match_rate_percent = 10000
    /\ pairResult.ext1_only # {}

(***************************************************************************)
(* Claims about the fixer (specification SpecFix).                         *)
(***************************************************************************)
\* the textual representation of a JSON value, as the contract has it: a
\* text is itself, a number is its decimal digits, null reads "None"
TextOf(v) ==
    CASE v.t = "str" -> v.s
      [] v.t = "num" -> ToString(v.n)
      [] OTHER -> "None"

\* the record the last fix_file call was made on, as it was before the call
LastOnObject ==
    /\ last.called
    /\ last.path \in DOMAIN last.before
    /\ last.before[last.path].kind = "object"

LastRecord == last.before[last.path].pairs
LastHasField == LastOnObject /\ HasKey(LastRecord, job.field_name)
LastValue == DictGet(LastRecord, job.field_name, JNull)

\* the files whose name marks them as backup copies
Backups(F) == {p \in DOMAIN F : Len(p.bk) > 0}

\* C4: with dry_run set, fix_file touches nothing on the file system: every
\* file has the bytes it had before the call and no backup file has been
\* created, whatever outcome is returned.
C4_DryRunTouchesNothing ==
    (last.called /\ last.dry_run) =>
        /\ fs = last.before
        /\ Backups(fs) = Backups(last.before)
        /\ last.result.backup_path = NoPath

\* a dry run, with backups enabled, that returned dry_run
C4_Witness ==
    /\ last.called
    /\ last.dry_run
    /\ last.backup
    /\ last.result.status = "dry_run"
    /\ last.path \in DOMAIN fs

\* the outcome of fix_file on the file of the last call, as it was before
\* that call, with dry_run set
DryOutcome ==
    fix_file(last.before, last.path, job.field_name, job.target_values, job.new_value,
             TRUE, last.backup, IoOk, last.at).result

\* the same without dry_run, the copy and the write answering as io says
RealOutcome(io) ==
    fix_file(last.before, last.path, job.field_name, job.target_values, job.new_value,
             FALSE, last.backup, io, last.at).result

AllIo == [copy : {"ok", "fail"}, write : {"ok", "denied", "nospace"}]

\* C5 as stated: fix_file with dry_run returns dry_run if and only if
\* fix_file without dry_run on the same initial file would not return
\* skipped.
C5_AsStated ==
    last.called =>
        LET dry == DryOutcome.status
        IN  \A io \in AllIo : (dry = "dry_run") <=> (RealOutcome(io).status # "skipped")

\* C5 as amended: on the same initial file the dry run returns skipped
\* exactly when the real run does; it never returns dry_run for a record the
\* real run would skip; and for a record that loads as a JSON object it
\* returns dry_run exactly when the real run does not return skipped.  (A
\* file that is missing, does not parse or is not an object is failed by
\* both.)
C5_SameDecision ==
    last.called =>
        LET dry == DryOutcome.status
            loads == LastOnObject
        IN  /\ last.result = IF last.dry_run THEN DryOutcome ELSE RealOutcome(last.io)
            /\ \A io \in AllIo :
                 LET real == RealOutcome(io).status
                 IN  /\ (dry = "skipped") <=> (real = "skipped")
                     /\ (dry = "dry_run") => (real # "skipped")
                     /\ loads => ((dry = "dry_run") <=> (real # "skipped"))
                     /\ ~loads => (dry = "failed" /\ real = "failed")

\* a real call that skipped a record the dry run skips too
C5_Witness ==
    /\ LastOnObject
    /\ ~last.dry_run
    /\ last.result.status = "skipped"
    /\ DryOutcome.status = "skipped"

\* a finished fix_folders run that returned its results
RunReturned == run.pc = "done" /\ run.returned = "results"

\* C6 as stated: every record enumerated by a fix_folders run whose field
\* value is not a target value appears in the run's results with status
\* skipped.
C6_AsStated ==
    RunReturned =>
        \A e \in run.enumerated :
            ( /\ e.content.kind = "object"
              /\ HasKey(e.content.pairs, job.field_name)
              /\ TextOf(DictGet(e.content.pairs, job.field_name, JNull)) \notin job.target_values )
            => \E i \in 1..Len(run.all_results) :
                  /\ run.all_results[i].file = e.path
                  /\ run.all_results[i].status = "skipped"

\* the contract's example: the number 20169715 is selected by the scan and
\* is in scope for fix_file when the target is the text "20169715"
NumberInScope ==
    /\ FileX \in DOMAIN scan_for_target_values([p \in {FileX} |-> DocNumber], <<"a">>,
                                               FIELD, {TYPO}, FALSE)
    /\ fix_file([p \in {FileX} |-> DocNumber], FileX, FIELD, {TYPO}, FIXED,
                TRUE, FALSE, IoOk, 0).result.status = "dry_run"

\* C7: a record is in scope for repair if and only if the textual
\* representation of its field value is a target value, a number being
\* compared by its digits; the scan (which selects the record) and fix_file
\* (which does not skip it) apply the same test.
C7_ScopeIsMembership ==
    /\ \A e \in run.enumerated :
          (e.content.kind = "object" /\ HasKey(e.content.pairs, job.field_name))
          => (e.selected
                <=> TextOf(DictGet(e.content.pairs, job.field_name, JNull)) \in job.target_values)
    /\ LastHasField =>
          ((last.result.status # "skipped") <=> (TextOf(LastValue) \in job.target_values))
    /\ NumberInScope

\* a run whose scan selected a record holding the number 20169715 and whose
\* fix_file then repaired it
C7_Witness ==
    /\ RunReturned
    /\ \E e \in run.enumerated : e.selected /\ e.content = DocNumber /\ e.path = last.path
    /\ LastValue = JNum(20169715)
    /\ last.result.status = "success"

\* C8 as stated: fix_file returns dry_run (or success) only for a record in
\* which the named field exists and its value is a target value.
C8_AsStated ==
    (last.called /\ last.result.status \in {"dry_run", "success"}) =>
        /\ LastHasField
        /\ TextOf(LastValue) \in job.target_values

\* C9 as stated: on a record whose field value is a target value, fix_file
\* without dry_run and with backups enabled returns success with the old
\* and the new value, a backup file exists afterwards and the field holds
\* the replacement; with dry_run the outcome is dry_run with the same values
\* and no file is changed.
Repaired ==
    /\ last.result.status = "success"
    /\ last.result.original_value = LastValue
    /\ last.result.new_value = job.new_value
    /\ last.result.backup_path \in Backups(fs) \ {last.path}
    /\ fs[last.path].kind = "object"
    /\ DictGet(fs[last.path].pairs, job.field_name, JNull) = JStr(job.new_value)

Previewed ==
    /\ last.result.status = "dry_run"
    /\ last.result.original_value = LastValue
    /\ last.result.new_value = job.new_value
    /\ fs = last.before

InTargets == LastHasField /\ TextOf(LastValue) \in job.target_values

C10_NonTargetSkipped ==
    (LastHasField /\ TextOf(LastValue) \notin job.target_values) =>
        /\ last.result.status = "skipped"
        /\ fs = last.before
        /\ last.result.backup_path = NoPath

\* a real call, backups enabled, on a record whose value is not a target
C10_Witness ==
    /\ LastHasField
    /\ TextOf(LastValue) \notin job.target_values
    /\ ~last.dry_run
    /\ last.backup
    /\ last.result.status = "skipped"

\* the last fix_file call overwrote its file: it returned success, or left
\* the file with other bytes than it had
Overwrote ==
    /\ last.called
    /\ last.path \in DOMAIN last.before
    /\ \/ last.result.status = "success"
       \/ fs[last.path] # last.before[last.path]

\* a further repair of the file of the last call, made now, whose write
\* succeeds or fails midway
RepairAgain(write) ==
    fix_file(fs, last.path, job.field_name, job.target_values, job.new_value,
             FALSE, TRUE, [copy |-> "ok", write |-> write], now)

\* C11: whenever fix_file overwrites a file with backups enabled and the
\* copy succeeds, the backup holds the bytes the file had before the call,
\* also when the write then fails midway (the copy is complete before the
\* write begins); this holds for every repair of every sequence of repairs,
\* and for a repeated repair of the same file, in the same second or later.
C11_BackupHoldsOldBytes ==
    /\ (Overwrote /\ last.backup /\ last.io.copy = "ok") =>
          /\ last.result.backup_path \in Backups(fs) \ {last.path}
          /\ fs[last.result.backup_path] = last.before[last.path]
    /\ (last.called /\ last.path \in DOMAIN fs) =>
          \A write \in {"ok", "nospace"} :
              LET again == RepairAgain(write)
              IN  (again.result.status = "success" \/ again.fs[last.path] # fs[last.path])
                  => /\ again.result.backup_path \in Backups(again.fs) \ {last.path}
                     /\ again.fs[again.result.backup_path] = fs[last.path]

\* a repair whose write failed midway: the file is truncated and the backup
\* holds its old bytes
C11_Witness ==
    /\ Overwrote
    /\ last.backup
    /\ last.io = [copy |-> "ok", write |-> "nospace"]
    /\ fs[last.path] = Truncated
    /\ last.result.backup_path \in DOMAIN fs
    /\ fs[last.result.backup_path] = last.before[last.path]
    /\ last.before[last.path] # Truncated

\* the last call was a repair, with backups enabled, whose copy failed
BackupFailed ==
    /\ InTargets
    /\ ~last.dry_run
    /\ last.backup
    /\ last.io.copy = "fail"

\* the same call on the same file system, had the copy succeeded
WithBackup ==
    fix_file(last.before, last.path, job.field_name, job.target_values, job.new_value,
             FALSE, TRUE, [copy |-> "ok", write |-> last.io.write], last.at)

\* C12: a failed backup does not abort the repair: backup_path stays empty
\* and the call goes on as it would have with the backup made (same outcome,
\* same bytes in the file); when the write succeeds it returns success and
\* the file holds the replacement (its bytes change unless it held the
\* replacement already).
C12_BackupFailureDoesNotAbort ==
    BackupFailed =>
        /\ last.result.backup_path = NoPath
        /\ last.result.status = WithBackup.result.status
        /\ fs[last.path] = WithBackup.fs[last.path]
        /\ last.io.write = "ok" =>
              /\ last.result.status = "success"
              /\ fs[last.path].kind = "object"
              /\ DictGet(fs[last.path].pairs, job.field_name, JNull) = JStr(job.new_value)
              /\ last.result.original_value # JStr(job.new_value) =>
                    fs[last.path] # last.before[last.path]

\* a repair that succeeded without its backup
C12_Witness ==
    /\ BackupFailed
    /\ last.io.write = "ok"
    /\ last.result.status = "success"
    /\ last.result.backup_path = NoPath
    /\ fs[last.path] # last.before[last.path]

\* the last call met an exception: its file is missing, does not parse, is
\* not an object (data.get fails), or was in scope and the write failed
MetException ==
    /\ last.called
    /\ \/ ~LastOnObject
       \/ /\ TextOf(DictGet(LastRecord, job.field_name, JStr(""))) \in job.target_values
          /\ ~last.dry_run
          /\ last.io.write # "ok"

\* the files a run's scans selected, pass by pass
Selected == {e \in run.enumerated : e.selected}

\* C13: an exception met while parsing, changing or writing a record
\* surfaces as the outcome failed with its message (and failed is returned
\* for nothing else); the loop of fix_folders goes on: a finished run holds
\* one result for every file its scans selected, failed ones included.
C13_FailureIsAnOutcome ==
    /\ last.called =>
          /\ MetException <=> last.result.status = "failed"
          /\ MetException => last.result.error # "None"
    /\ run.pc \in {"scan", "done"} => Len(run.all_results) = Cardinality(Selected)
    /\ RunReturned =>
          \A e \in Selected :
              \E i \in 1..Len(run.all_results) : run.all_results[i].file = e.path

\* a finished run whose first repair failed and which repaired another file
\* after it
C13_Witness ==
    /\ RunReturned
    /\ Len(run.all_results) >= 2
    /\ run.all_results[1].status = "failed"
    /\ run.all_results[2].status = "success"
    /\ run.all_results[2].file # run.all_results[1].file

\* C14 as stated, for the repair tool: every record a fix_folders run
\* enumerated that does not parse is listed in the run's results with the
\* outcome failed.
C14_AsStated ==
    RunReturned =>
        \A e \in run.enumerated :
            e.content.kind = "garbage"
            => \E i \in 1..Len(run.all_results) :
                  /\ run.all_results[i].file = e.path
                  /\ run.all_results[i].status = "failed"

\* the keys of a record
Keys(pairs) == {pairs[i].k : i \in 1..Len(pairs)}

\* C15 as stated: after fix_file returns success the record has the same
\* set of keys as before and every field other than the repaired one has
\* the value it had.
C15_AsStated ==
    (last.called /\ last.result.status = "success") =>
        /\ fs[last.path].kind = "object"
        /\ Keys(fs[last.path].pairs) = Keys(LastRecord)
        /\ \A key \in Keys(LastRecord) \ {job.field_name} :
              DictGet(fs[last.path].pairs, key, JNull) = DictGet(LastRecord, key, JNull)

(***************************************************************************)
(* The date validator (json_date_validator.py).  A text is a sequence of   *)
(* characters; a format is a sequence of directives ("%Y", "%m", "%d")     *)
(* and literal characters.                                                 *)
(***************************************************************************)
Digits == <<"0", "1", "2", "3", "4", "5", "6", "7", "8", "9">>
IsDigit(c) == \E i \in 1..10 : Digits[i] = c
DigitVal(c) == (CHOOSE i \in 1..10 : Digits[i] = c) - 1

\* the character at position i, or "" beyond the end of the text
CharAt(text, i) == IF i >= 1 /\ i <= Len(text) THEN text[i] ELSE ""

\* the text has n digits from position pos on
DigitsAt(text, pos, n) ==
    /\ pos + n - 1 <= Len(text)
    /\ \A i \in pos..(pos + n - 1) : IsDigit(text[i])

\* the number written by the n characters from pos on, anything but a
\* digit counting 0
RECURSIVE NumberAt(_, _, _)
NumberAt(text, pos, n) ==
    IF n = 0 THEN 0
    ELSE 10 * NumberAt(text, pos, n - 1)
         + (IF IsDigit(CharAt(text, pos + n - 1)) THEN DigitVal(CharAt(text, pos + n - 1)) ELSE 0)

Opt(cond, len) == IF cond THEN <<len>> ELSE <<>>

\* The lengths a token of the format can take, in the order in which the
\* regular expression of _strptime tries them:
\*   %Y  \d\d\d\d
\*   %m  1[0-2] | 0[1-9] | [1-9]
\*   %d  3[0-1] | [1-2]\d | 0[1-9] | [1-9] | " "[1-9]
\* and a literal character matches itself.  c and n1 are the first character
\* and its number, two and n2 say whether two digits follow and their
\* number, n3 is the number of the second character.
Choices(token, c, four, two, n1, n2, n3) ==
    CASE token = "%Y" -> Opt(four, 4)
      [] token = "%m" -> Opt(two /\ n2 >= 10 /\ n2 <= 12, 2) \o Opt(two /\ c = "0" /\ n2 >= 1, 2)
                           \o Opt(n1 >= 1, 1)
      [] token = "%d" -> Opt(two /\ n2 >= 30 /\ n2 <= 31, 2) \o Opt(two /\ n2 >= 10 /\ n2 <= 29, 2)
                           \o Opt(two /\ c = "0" /\ n2 >= 1, 2) \o Opt(n1 >= 1, 1)
                           \o Opt(c = " " /\ n3 >= 1, 2)
      [] OTHER -> Opt(c = token, 1)

Alternatives(token, text, pos) ==
    Choices(token, CharAt(text, pos), DigitsAt(text, pos, 4), DigitsAt(text, pos, 2),
            NumberAt(text, pos, 1), NumberAt(text, pos, 2), NumberAt(text, pos + 1, 1))

\* re.match of the format's regular expression on the text from pos on, for
\* the tokens from k on: the lengths taken by the tokens in the first match
\* in the order of preference of the alternatives (the match need not reach
\* the end of the text)
RECURSIVE ReMatch(_, _, _, _)
RECURSIVE FirstMatch(_, _, _, _, _, _)
FirstMatch(format, k, text, pos, alts, i) ==
    IF i > Len(alts)
    THEN [ok |-> FALSE, lens |-> <<>>]
    ELSE LET rest == ReMatch(format, k + 1, text, pos + alts[i])
         IN  IF rest.ok
             THEN [ok |-> TRUE, lens |-> <<alts[i]>> \o rest.lens]
             ELSE FirstMatch(format, k, text, pos, alts, i + 1)

ReMatch(format, k, text, pos) ==
    IF k > Len(format)
    THEN [ok |-> TRUE, lens |-> <<>>]
    ELSE FirstMatch(format, k, text, pos, Alternatives(format[k], text, pos), 1)

RECURSIVE SumSeq(_)
SumSeq(q) == IF q = <<>> THEN 0 ELSE Head(q) + SumSeq(Tail(q))

IsLeap(year) == year % 4 = 0 /\ (year % 100 # 0 \/ year % 400 = 0)

DaysIn(year, month) ==
    CASE month \in {4, 6, 9, 11} -> 30
      [] month = 2 -> IF IsLeap(year) THEN 29 ELSE 28
      [] OTHER -> 31

NoDate == [ok |-> FALSE, year |-> 0, month |-> 0, day |-> 0]

\* the date of the three numbers, if there is one (year 0 and a day the
\* month does not have raise ValueError)
Calendar(year, month, day) ==
    IF year < 1 \/ day > DaysIn(year, month)
    THEN NoDate
    ELSE [ok |-> TRUE, year |-> year, month |-> month, day |-> day]

\* the number matched by a token of the format, or the default when the
\* format does not name the token
FieldOf(date_str, date_format, lens, token, default) ==
    LET named == {k \in 1..Len(date_format) : date_format[k] = token}
        at == CHOOSE k \in named : TRUE
    IN  IF named = {}
        THEN default
        ELSE NumberAt(date_str, 1 + SumSeq(SubSeq(lens, 1, at - 1)), lens[at])

DateOf(date_str, date_format, found) ==
    IF ~found.ok \/ SumSeq(found.lens) # Len(date_str)
    THEN NoDate
    ELSE Calendar(FieldOf(date_str, date_format, found.lens, "%Y", 1900),
                  FieldOf(date_str, date_format, found.lens, "%m", 1),
                  FieldOf(date_str, date_format, found.lens, "%d", 1))

\* datetime.strptime(date_str, date_format): the date, or ok = FALSE where
\* it raises ValueError (no match, unconverted data remains, year 0, a day
\* the month does not have).  A field the format does not name defaults to
\* 1900, 1 and 1.
strptime(date_str, date_format) ==
    DateOf(date_str, date_format, ReMatch(date_format, 1, date_str, 1))

\* JSON values as the validator meets them: a text (its characters), a
\* number, or null (Python None)
VText(chars) == [t |-> "str", s |-> chars, n |-> 0]
VNum(n) == [t |-> "num", s |-> <<>>, n |-> n]
VNull == [t |-> "null", s |-> <<>>, n |-> 0]

\* the format returned with an invalid value (None)
NoFormat == <<"None">>

\* year_range[0] <= parsed_date.year <= year_range[1], for a date that parsed
InYearRange(parsed_date, year_range) ==
    /\ parsed_date.ok
    /\ year_range[1] <= parsed_date.year
    /\ parsed_date.year <= year_range[2]

\* the indexes of a set of formats, and the format of the list at the least
\* or greatest of them
Pick(date_formats, fits, latest) ==
    IF fits = {}
    THEN [valid |-> FALSE, format |-> NoFormat]
    ELSE [valid |-> TRUE,
          format |-> date_formats[CHOOSE i \in fits :
                                     \A j \in fits : IF latest THEN i >= j ELSE i <= j]]

\* mutant: the year range is not applied
is_valid_date_format_AnyYear(date_str, date_formats, year_range) ==
    Pick(date_formats,
         {i \in 1..Len(date_formats) :
             date_str.t = "str" /\ strptime(date_str.s, date_formats[i]).ok},
         FALSE)

\* mutant: the last fitting format of the list wins
is_valid_date_format_LastWins(date_str, date_formats, year_range) ==
    Pick(date_formats,
         {i \in 1..Len(date_formats) :
             /\ date_str.t = "str"
             /\ InYearRange(strptime(date_str.s, date_formats[i]), year_range)},
         TRUE)

\* mutant: only the first format of the list is tried
TryFormats_FirstOnly(date_str, date_formats, year_range, k) ==
    IF InYearRange(strptime(date_str, date_formats[1]), year_range)
    THEN [valid |-> TRUE, format |-> date_formats[1]]
    ELSE [valid |-> FALSE, format |-> NoFormat]

\* the loop of is_valid_date_format over date_formats, from the k-th on
RECURSIVE TryFormats(_, _, _, _)
TryFormats(date_str, date_formats, year_range, k) ==
    IF k > Len(date_formats)
    THEN [valid |-> FALSE, format |-> NoFormat]
    ELSE IF InYearRange(strptime(date_str, date_formats[k]), year_range)
    THEN [valid |-> TRUE, format |-> date_formats[k]]
    ELSE TryFormats(date_str, date_formats, year_range, k + 1)

\* is_valid_date_format: (False, None) for an empty or non-text value, else
\* the first format that parses the text with a year in year_range
is_valid_date_format(date_str, date_formats, year_range) ==
    IF date_str.s = <<>> \/ date_str.t # "str"
    THEN [valid |-> FALSE, format |-> NoFormat]
    ELSE TryFormats(date_str.s, date_formats, year_range, 1)

\* the fields named by target_fields
Fields(target_fields) == {target_fields[i] : i \in 1..Len(target_fields)}

\* the result of check_json_file for one field
Verdict(status, json_path, value, format) ==
    [status |-> status, file_path |-> json_path, value |-> value, format |-> format]

\* the body of the loop over target_fields: missing for None, else the
\* verdict of is_valid_date_format
FieldVerdict(json_path, date_value, checked) ==
    IF date_value = VNull
    THEN Verdict("missing", json_path, VNull, NoFormat)
    ELSE IF ~checked.valid
    THEN Verdict("invalid", json_path, date_value, NoFormat)
    ELSE Verdict("valid", json_path, date_value, checked.format)

\* mutant: a null value is validated like any other value
check_json_file_NullIsInvalid(F, json_path, target_fields, date_formats, year_range) ==
    IF json_path \notin DOMAIN F \/ F[json_path].kind # "object"
    THEN [field \in Fields(target_fields) |-> Verdict("error", json_path, VNull, NoFormat)]
    ELSE [field \in Fields(target_fields) |->
            IF HasKey(F[json_path].pairs, field)
            THEN Verdict("invalid", json_path, DictGet(F[json_path].pairs, field, VNull), NoFormat)
            ELSE Verdict("missing", json_path, VNull, NoFormat)]

\* check_json_file: the verdict of every target field for one file; a file
\* that cannot be opened, does not parse or is not an object (data.get
\* fails) gets the verdict error for every field
check_json_file(F, json_path, target_fields, date_formats, year_range) ==
    IF json_path \notin DOMAIN F \/ F[json_path].kind # "object"
    THEN [field \in Fields(target_fields) |-> Verdict("error", json_path, VNull, NoFormat)]
    ELSE [field \in Fields(target_fields) |->
            FieldVerdict(json_path, DictGet(F[json_path].pairs, field, VNull),
                         is_valid_date_format(DictGet(F[json_path].pairs, field, VNull),
                                              date_formats, year_range))]

\* JSONDateValidator.get_json_files: folder.glob("*.json") or
\* folder.rglob("*.json")
validator_get_json_files(F, folder_path, recursive) ==
    {p \in DOMAIN F : IF recursive THEN IsPrefix(folder_path, p.dir) ELSE p.dir = folder_path}

(***************************************************************************)
(* The validator's inputs: --date-formats, --year-range, --field, and the  *)
(* records on disk.                                                        *)
(***************************************************************************)
FmtYmd == <<"%Y", "%m", "%d">>
FmtIso == <<"%Y", "-", "%m", "-", "%d">>
FmtYdm == <<"%Y", "-", "%d", "-", "%m">>
FmtMdY == <<"%m", "%d", "%Y">>

\* date_formats or ["%Y%m%d", "%Y-%m-%d"]
DefaultFormats == <<FmtYmd, FmtIso>>

\* year_range: Tuple[int, int] = (1900, 2100)
DefaultYearRange == <<1900, 2100>>

FormatLists == {DefaultFormats, <<FmtIso, FmtYdm>>, <<FmtYmd, FmtMdY>>, <<FmtIso>>}
YearRanges == {DefaultYearRange, <<2020, 2020>>}
FieldLists == {<<"date">>, <<"date", "end">>}

\* --path names a directory that exists, or one that does not
ValConfs ==
    [base_exists : BOOLEAN, date_formats : FormatLists, year_range : YearRanges,
     target_fields : FieldLists]

\* the decimal digits of n, padded with zeros to the given width
RECURSIVE Padded(_, _)
Padded(n, width) ==
    IF width = 0 THEN <<>> ELSE Append(Padded(n \div 10, width - 1), Digits[(n % 10) + 1])

\* the text a date is written as in a format (datetime.strftime, for years
\* of four digits)
RECURSIVE strftime(_, _)
strftime(date, date_format) ==
    IF date_format = <<>> THEN <<>>
    ELSE LET token == Head(date_format)
             piece == IF token = "%Y" THEN Padded(date.year, 4)
                      ELSE IF token = "%m" THEN Padded(date.month, 2)
                      ELSE IF token = "%d" THEN Padded(date.day, 2)
                      ELSE <<token>>
         IN  piece \o strftime(date, Tail(date_format))

\* the calendar dates written into the texts tried
Dates ==
    {d \in [year : {1899, 1900, 2020, 2100, 2101}, month : {2, 12}, day : {1, 12, 29}] :
        d.day <= DaysIn(d.year, d.month)}

\* texts that are no formatted date: a typo, a date that does not exist, a
\* text without padding, a text that reads as a date in two ways, letters,
\* and the empty text
OddTexts ==
    {<<"2", "0", "1", "6", "9", "7", "1", "5">>,
     <<"2", "0", "2", "0", "0", "2", "3", "0">>,
     <<"2", "0", "2", "0", "1", "1", "5">>,
     <<"1", "2", "3", "1", "9", "0", "1">>,
     <<"2", "0", "2", "0", "-", "1", "-", "5">>,
     <<"2", "0", "2", "0", "0", "1", "1", "5", "0">>,
     <<"n", "e", "w", "s">>,
     <<>>}

\* every date written in every format
Written ==
    {[date |-> d, format |-> f, text |-> strftime(d, f)] :
        d \in Dates, f \in {FmtYmd, FmtIso, FmtYdm, FmtMdY}}

ValTexts == OddTexts \cup {w.text : w \in Written}

\* the values is_valid_date_format is called with
ValValues == {VText(t) : t \in ValTexts} \cup {VNum(20200115), VNum(0), VNull}

ValObject(pairs) == [kind |-> "object", pairs |-> pairs]
ValGarbage == [kind |-> "garbage", pairs |-> <<>>]
ValArray == [kind |-> "array", pairs |-> <<>>]

TextGood == <<"2", "0", "2", "0", "0", "1", "1", "5">>
TextIso == <<"2", "0", "2", "0", "-", "0", "1", "-", "1", "5">>
TextTypo == <<"2", "0", "1", "6", "9", "7", "1", "5">>
TextOld == <<"1", "8", "9", "9", "1", "2", "3", "1">>
TextTwoWays == <<"1", "2", "3", "1", "9", "0", "1">>

ValDocs ==
    {ValObject(<<Pair("date", VText(TextGood)), Pair("end", VText(TextIso))>>),
     ValObject(<<Pair("date", VText(TextTypo)), Pair("end", VNull)>>),
     ValObject(<<Pair("date", VText(TextOld)), Pair("title", VText(<<"n">>))>>),
     ValObject(<<Pair("date", VText(TextTwoWays))>>),
     ValObject(<<Pair("date", VNull), Pair("end", VText(TextGood))>>),
     ValObject(<<Pair("title", VText(<<"n">>))>>),
     ValObject(<<Pair("date", VNum(20200115))>>),
     ValObject(<<Pair("date", VText(<<>>))>>),
     ValGarbage,
     ValArray}

ValFileSystems ==
    {[p \in ({FileX} \cap cx.at) \cup ({FileY} \cap cy.at) |-> IF p = FileX THEN cx.doc ELSE cy.doc] :
        cx \in {[at |-> {FileX}, doc |-> d] : d \in ValDocs} \cup {[at |-> {}, doc |-> ValGarbage]},
        cy \in {[at |-> {FileY}, doc |-> d] :
                   d \in {ValObject(<<Pair("date", VText(TextIso))>>), ValGarbage}}
                 \cup {[at |-> {}, doc |-> ValGarbage]}}

Statuses == {"valid", "invalid", "missing", "error"}

(***************************************************************************)
(* The validator as a state machine: one operation per behaviour, either a *)
(* direct call of is_valid_date_format or check_json_file, or a run of     *)
(* validate_folders taken file by file.                                    *)
(***************************************************************************)
ValInit ==
    /\ valConf \in ValConfs
    /\ valFs \in IF valConf.base_exists THEN ValFileSystems ELSE {NoValFs}
    /\ valCall = NoValCall
    /\ valRun = NoValRun
    /\ pairDirs = [d \in {} |-> {}]
    /\ pairCall = NoCall
    /\ pairResult = NoResult
    /\ fs = EmptyFs
    /\ job = IdleJob
    /\ now = 0
    /\ calls = 0
    /\ faults = 0
    /\ last = NoLast
    /\ run = NoRun
    /\ StatsIdle

\* JSONDateValidator(...) has been constructed (the base path exists) and
\* nothing has been called yet
ValAtRest == valConf.base_exists /\ valCall = NoValCall /\ valRun.pc = "idle"

CallIsValidDateFormat ==
    /\ ValAtRest
    /\ \E date_str \in ValValues :
         valCall' = [op |-> "is_valid_date_format", date_str |-> date_str,
                     result |-> is_valid_date_format(date_str, valConf.date_formats,
                                                     valConf.year_range)]
    /\ UNCHANGED <<valConf, valFs, valRun, pairVars, fixVars, uploads, stats_output, analyzer>>

CallCheckJsonFile ==
    /\ ValAtRest
    /\ \E json_path \in {FileX, FileY, FileMissing} :
         valCall' = [op |-> "check_json_file", json_path |-> json_path,
                     result |-> check_json_file(valFs, json_path, valConf.target_fields,
                                                valConf.date_formats, valConf.year_range)]
    /\ UNCHANGED <<valConf, valFs, valRun, pairVars, fixVars, uploads, stats_output, analyzer>>

\* validate_folders up to the loop over the folders
validate_folders_start ==
    /\ ValAtRest
    /\ \E folder_names \in FolderNames, recursive \in BOOLEAN :
         LET folders == IF folder_names # <<>>
                        THEN SelectSeq(folder_names, LAMBDA f : f \in ExistingDirs)
                        ELSE << <<>> >>
             begun == [NoValRun EXCEPT !.folder_names = folder_names,
                                       !.recursive = recursive, !.folders = folders]
         IN  valRun' = IF folders = <<>>
                       THEN [begun EXCEPT !.pc = "done", !.returned = "empty"]
                       ELSE [begun EXCEPT
                               !.pc = "folder", !.idx = 1,
                               !.all_results = [field \in Fields(valConf.target_fields) |->
                                                  [status \in Statuses |-> <<>>]]]
    /\ UNCHANGED <<valConf, valFs, valCall, pairVars, fixVars, uploads, stats_output, analyzer>>

\* one turn of the loop over the folders: list the folder's JSON files
validate_folders_folder ==
    /\ valRun.pc = "folder"
    /\ valRun.idx <= Len(valRun.folders)
    /\ LET json_files == validator_get_json_files(valFs, valRun.folders[valRun.idx],
                                                  valRun.recursive)
           seen == {[pass |-> valRun.idx, path |-> p] : p \in json_files}
       IN  valRun' = IF json_files = {}
                     THEN [valRun EXCEPT !.idx = @ + 1]
                     ELSE [valRun EXCEPT
                             !.pc = "files", !.pending = json_files,
                             !.folder_files = Cardinality(json_files),
                             !.field_counters = [field \in Fields(valConf.target_fields) |->
                                                   [status \in Statuses |-> 0]],
                             !.enumerated = @ \cup seen]
    /\ UNCHANGED <<valConf, valFs, valCall, pairVars, fixVars, uploads, stats_output, analyzer>>

\* mutant: a verdict error is not appended
Filed_DropErrors(all_results, results) ==
    [field \in DOMAIN all_results |->
        [status \in Statuses |->
            IF results[field].status = status /\ status # "error"
            THEN Append(all_results[field][status], results[field])
            ELSE all_results[field][status]]]

\* all_results after all_results[field][status].append(result) for every
\* field of results
Filed(all_results, results) ==
    [field \in DOMAIN all_results |->
        [status \in Statuses |->
            IF results[field].status = status
            THEN Append(all_results[field][status], results[field])
            ELSE all_results[field][status]]]

\* field_counters after field_counters[field][status] += 1 for every field
\* of results
Counted(field_counters, results) ==
    [field \in DOMAIN field_counters |->
        [status \in Statuses |->
            IF results[field].status = status
            THEN field_counters[field][status] + 1
            ELSE field_counters[field][status]]]

\* the run after one file: on to the next file, or to the next folder
AfterFile(r, left, results) ==
    [r EXCEPT !.pc = IF left = {} THEN "folder" ELSE "files",
              !.idx = IF left = {} THEN @ + 1 ELSE @,
              !.pending = left,
              !.all_results = Filed(@, results),
              !.field_counters = Counted(@, results)]

\* one turn of the loop over a folder's files: check the file, append each
\* field's verdict to all_results[field][status] and count it
validate_folders_file ==
    /\ valRun.pc = "files"
    /\ valRun' = AfterFile(valRun, valRun.pending \ {FirstListed(valRun.pending)},
                           check_json_file(valFs, FirstListed(valRun.pending),
                                           valConf.target_fields, valConf.date_formats,
                                           valConf.year_range))
    /\ UNCHANGED <<valConf, valFs, valCall, pairVars, fixVars, uploads, stats_output, analyzer>>

\* return all_results
validate_folders_return ==
    /\ valRun.pc = "folder"
    /\ valRun.idx > Len(valRun.folders)
    /\ valRun' = [valRun EXCEPT !.pc = "done", !.returned = "results"]
    /\ UNCHANGED <<valConf, valFs, valCall, pairVars, fixVars, uploads, stats_output, analyzer>>

\* the total save_results writes for a field in the summary
summary_total(field_results) ==
    Len(field_results["valid"]) + Len(field_results["invalid"])
    + Len(field_results["missing"]) + Len(field_results["error"])

\* main, when the constructor raises ValueError for a base path that does
\* not exist: the exception is printed and main returns 1
main_no_base_path ==
    /\ ~valConf.base_exists
    /\ valRun.pc = "idle"
    /\ valRun' = [NoValRun EXCEPT !.pc = "exited", !.returned = "raised",
                                  !.error = "ValueError", !.exit_code = 1]
    /\ UNCHANGED <<valConf, valFs, valCall, pairVars, fixVars, uploads, stats_output, analyzer>>

\* main after validate_folders has returned: non-empty results are saved and
\* summarised; save_results raises ZeroDivisionError at len(valid)/total*100
\* when a field has no verdict at all; an exception makes main return 1,
\* else it returns 0
main_exit ==
    /\ valRun.pc = "done"
    /\ valRun' = IF /\ valRun.returned = "results"
                    /\ \E field \in DOMAIN valRun.all_results :
                         summary_total(valRun.all_results[field]) = 0
                 THEN [valRun EXCEPT !.pc = "exited", !.error = "ZeroDivisionError",
                                     !.exit_code = 1]
                 ELSE [valRun EXCEPT !.pc = "exited", !.exit_code = 0]
    /\ UNCHANGED <<valConf, valFs, valCall, pairVars, fixVars, uploads, stats_output, analyzer>>

ValNext ==
    \/ CallIsValidDateFormat
    \/ CallCheckJsonFile
    \/ main_no_base_path
    \/ validate_folders_start
    \/ validate_folders_folder
    \/ validate_folders_file
    \/ validate_folders_return
    \/ main_exit

SpecVal == ValInit /\ [][ValNext]_vars

(***************************************************************************)
(* Claims about the validator (SpecVal).                                   *)
(***************************************************************************)
CalledIsValid == valCall.op = "is_valid_date_format"

\* the text of the value is_valid_date_format was called with parses in the
\* format, and the format's year lies in year_range
Parses(date_format) ==
    /\ valCall.date_str.t = "str"
    /\ strptime(valCall.date_str.s, date_format).ok

YearOf(date_format) == strptime(valCall.date_str.s, date_format).year

YearFits(date_format) ==
    /\ valConf.year_range[1] <= YearOf(date_format)
    /\ YearOf(date_format) <= valConf.year_range[2]

\* the places in date_formats of the formats that satisfy both conditions
Fitting ==
    {i \in 1..Len(valConf.date_formats) :
        Parses(valConf.date_formats[i]) /\ YearFits(valConf.date_formats[i])}

\* C16: is_valid_date_format returns (valid, F) with F the first format of
\* the list, in list order, that parses the text into a calendar date with a
\* year within [min, max] inclusive, and (invalid, none) exactly when no
\* format of the list satisfies both conditions.
C16_FirstFittingFormatWins ==
    CalledIsValid =>
        LET fitting == Fitting
        IN  /\ valCall.result.valid <=> fitting # {}
            /\ ~valCall.result.valid => valCall.result.format = NoFormat
            /\ valCall.result.valid =>
                  \E i \in fitting :
                      /\ valCall.result.format = valConf.date_formats[i]
                      /\ \A j \in fitting : i <= j

\* a text that the first format parses with a year out of range and that a
\* later format fits: the later format is the one returned
C16_Witness ==
    /\ CalledIsValid
    /\ Len(valConf.date_formats) = 2
    /\ Parses(valConf.date_formats[1])
    /\ ~YearFits(valConf.date_formats[1])
    /\ valCall.result = [valid |-> TRUE, format |-> valConf.date_formats[2]]

\* the dates and formats the text of the call is a writing of: the format
\* is one of the configured list and the date's year lies in year_range
WritingsOfCall ==
    {w \in Written :
        /\ valCall.date_str = VText(w.text)
        /\ \E i \in 1..Len(valConf.date_formats) : valConf.date_formats[i] = w.format
        /\ valConf.year_range[1] <= w.date.year
        /\ w.date.year <= valConf.year_range[2]}

\* C17 as stated: the text written from a date of the year range in a
\* configured format F is valid with matched format F.
C17_AsStated ==
    CalledIsValid =>
        \A w \in WritingsOfCall : valCall.result = [valid |-> TRUE, format |-> w.format]

\* C17, amended: the text written from a date of the year range in a
\* configured format F is valid; F reads the date back from it, and the
\* matched format is the first format of the list that parses the text with
\* a year in the range, which is F when no earlier format of the list does.
C17_RoundTrip ==
    CalledIsValid =>
        \A w \in WritingsOfCall :
            LET fitting == Fitting
                first == CHOOSE i \in fitting : \A j \in fitting : i <= j
            IN  /\ strptime(w.text, w.format) = [ok |-> TRUE, year |-> w.date.year,
                                                 month |-> w.date.month, day |-> w.date.day]
                /\ \E i \in fitting : valConf.date_formats[i] = w.format
                /\ valCall.result = [valid |-> TRUE, format |-> valConf.date_formats[first]]
                /\ valConf.date_formats[first] # w.format =>
                      \E i \in 1..Len(valConf.date_formats) :
                          /\ valConf.date_formats[i] = w.format
                          /\ first < i

\* a date written in the second format of the list is valid with the second
\* format matched
C17_Witness ==
    /\ CalledIsValid
    /\ Len(valConf.date_formats) = 2
    /\ \E w \in WritingsOfCall : w.format = valConf.date_formats[2]
    /\ valCall.result = [valid |-> TRUE, format |-> valConf.date_formats[2]]

CalledCheck == valCall.op = "check_json_file"

\* what the i-th configured format reads a text value as
ReadAs(value, i) == strptime(value.s, valConf.date_formats[i])

\* the value is a text that the i-th configured format parses, with a year
\* outside year_range
OutOfRangeIn(value, i) ==
    /\ value.t = "str"
    /\ ReadAs(value, i).ok
    /\ ~(valConf.year_range[1] <= ReadAs(value, i).year
         /\ ReadAs(value, i).year <= valConf.year_range[2])

\* some configured format parses the value, and every one that does yields
\* a year outside year_range
OutOfRangeOnly(value) ==
    /\ \E i \in 1..Len(valConf.date_formats) : OutOfRangeIn(value, i)
    /\ \A i \in 1..Len(valConf.date_formats) :
          (value.t = "str" /\ ReadAs(value, i).ok) => OutOfRangeIn(value, i)

\* C18 as stated: a value that parses under some configured format with a
\* year outside [min, max] is invalid, never valid.
C18_AsStated ==
    /\ CalledIsValid =>
          ((\E i \in 1..Len(valConf.date_formats) : OutOfRangeIn(valCall.date_str, i))
              => ~valCall.result.valid)
    /\ CalledCheck =>
          \A field \in DOMAIN valCall.result :
              (\E i \in 1..Len(valConf.date_formats) :
                  OutOfRangeIn(valCall.result[field].value, i))
                  => valCall.result[field].status # "valid"

\* C18, amended: a value that every configured format that parses it reads
\* with a year outside [min, max] is invalid, never valid, and the matched
\* format of a valid value reads it with a year within [min, max].
C18_OutOfRangeIsInvalid ==
    /\ CalledIsValid =>
          /\ OutOfRangeOnly(valCall.date_str) =>
                valCall.result = [valid |-> FALSE, format |-> NoFormat]
          /\ valCall.result.valid =>
                \E i \in 1..Len(valConf.date_formats) :
                    /\ valCall.result.format = valConf.date_formats[i]
                    /\ ReadAs(valCall.date_str, i).ok
                    /\ ~OutOfRangeIn(valCall.date_str, i)
    /\ CalledCheck =>
          \A field \in DOMAIN valCall.result :
              LET verdict == valCall.result[field]
              IN  /\ OutOfRangeOnly(verdict.value) => verdict.status = "invalid"
                  /\ verdict.status = "valid" =>
                        \E i \in 1..Len(valConf.date_formats) :
                            /\ verdict.format = valConf.date_formats[i]
                            /\ ReadAs(verdict.value, i).ok
                            /\ ~OutOfRangeIn(verdict.value, i)

\* a record whose date only parses with a year out of the range got the
\* verdict invalid
C18_Witness ==
    /\ CalledCheck
    /\ \E field \in DOMAIN valCall.result :
          /\ OutOfRangeOnly(valCall.result[field].value)
          /\ valCall.result[field].status = "invalid"

\* the record check_json_file was called on is there and parses as an object
CheckedParses ==
    /\ valCall.json_path \in DOMAIN valFs
    /\ valFs[valCall.json_path].kind = "object"

\* the record checked has the key, with a value that is not null
PresentNotNull(field) ==
    \E i \in 1..Len(valFs[valCall.json_path].pairs) :
        /\ valFs[valCall.json_path].pairs[i].k = field
        /\ valFs[valCall.json_path].pairs[i].v # VNull

\* C19: check_json_file gives a field the verdict missing if and only if the
\* record parses (as a JSON object) and the key is absent or its value is
\* null; a record that does not parse gets the verdict error for every
\* target field, and a present value that is not null never gets missing.
C19_MissingIffAbsentOrNull ==
    CalledCheck =>
        /\ DOMAIN valCall.result = Fields(valConf.target_fields)
        /\ \A field \in Fields(valConf.target_fields) :
              /\ valCall.result[field].status = "missing"
                    <=> (CheckedParses /\ ~PresentNotNull(field))
              /\ ~CheckedParses => valCall.result[field].status = "error"
              /\ (CheckedParses /\ PresentNotNull(field))
                    => valCall.result[field].status \in {"valid", "invalid"}

\* a record whose key is there with the value null: the verdict is missing,
\* while another field of the same record has a verdict of its own
C19_Witness ==
    /\ CalledCheck
    /\ CheckedParses
    /\ HasKey(valFs[valCall.json_path].pairs, "date")
    /\ valCall.result["date"].status = "missing"
    /\ "end" \in DOMAIN valCall.result
    /\ valCall.result["end"].status = "valid"

ValReturned == valRun.pc = "done" /\ valRun.returned = "results"

\* the JSON files of the folders the run was given
InScopeOfRun ==
    {p \in DOMAIN valFs :
        \E k \in 1..Len(valRun.folders) :
            IF valRun.recursive
            THEN IsPrefix(valRun.folders[k], p.dir)
            ELSE p.dir = valRun.folders[k]}

\* the number of entries a file has in the lists of a field's results
RECURSIVE EntriesIn(_, _)
EntriesIn(list, p) ==
    IF list = <<>> THEN 0
    ELSE (IF Head(list).file_path = p THEN 1 ELSE 0) + EntriesIn(Tail(list), p)

EntriesOf(field, p) ==
    EntriesIn(valRun.all_results[field]["valid"], p)
    + EntriesIn(valRun.all_results[field]["invalid"], p)
    + EntriesIn(valRun.all_results[field]["missing"], p)
    + EntriesIn(valRun.all_results[field]["error"], p)

\* C20 as stated: in the results a run returns, every JSON file of the
\* folders validated has exactly one entry, under exactly one of valid,
\* invalid, missing and error, in the results of each target field.
C20_AsStated ==
    ValReturned =>
        \A field \in Fields(valConf.target_fields), p \in InScopeOfRun :
            EntriesOf(field, p) = 1

(***************************************************************************)
(* Further claims about the fixer (SpecFix).                               *)
(***************************************************************************)
\* a file the tool made as a backup: its name carries a _backup_<timestamp>
IsBackup(path) == path.bk # <<>>

\* C23 as stated: no pass of a fix_folders run opens a backup the tool
\* made (the scan opens every file it enumerates), selects it as a repair
\* target or modifies it.
C23_AsStated ==
    /\ \A e \in run.enumerated : ~IsBackup(e.path)
    /\ \A p \in run.pending : ~IsBackup(p)
    /\ (run.pc # "idle" /\ last.called) => ~IsBackup(last.path)

\* a folder named with --folders that does not exist
RequestedMissing ==
    \E i \in 1..Len(run.folder_names) : run.folder_names[i] \notin ExistingDirs

\* C24 as stated: when a requested folder does not exist, the invocation
\* reads no record, modifies no file and makes no backup.
C24_AsStated ==
    (run.pc # "idle" /\ RequestedMissing) =>
        /\ run.enumerated = {}
        /\ run.all_results = <<>>
        /\ ~last.called

\* the same fix_file call made once more on the file of the last call, at
\* time `at` and with the environment answering `io`
SecondCall(io, at) ==
    fix_file(fs, last.path, job.field_name, job.target_values, job.new_value,
             last.dry_run, last.backup, io, at)

\* C27: when the replacement is not itself a target value, a second fix_file
\* call on a file that fix_file has just repaired with success, with the same
\* field, target values and replacement, returns skipped, leaves the bytes of
\* every file as they are and creates no further backup.
C27_SecondRepairIsSkipped ==
    (last.called /\ last.result.status = "success"
       /\ job.new_value \notin job.target_values) =>
        \A io \in AllIo, at \in now..MaxClock :
            /\ SecondCall(io, at).result.status = "skipped"
            /\ SecondCall(io, at).result.backup_path = NoPath
            /\ SecondCall(io, at).fs = fs

\* a repair that succeeded, with its backup, for a replacement that is no
\* target value: the file now holds the replacement and the second call
\* skips it
C27_Witness ==
    /\ last.called
    /\ last.result.status = "success"
    /\ last.result.backup_path \in DOMAIN fs
    /\ job.new_value \notin job.target_values
    /\ DictGet(fs[last.path].pairs, job.field_name, JNull) = JStr(job.new_value)
    /\ SecondCall(IoOk, now).result.status = "skipped"

\* C28 as stated: when fix_file returns failed, the file has the content it
\* had before the call.
C28_AsStated ==
    (last.called /\ last.result.status = "failed" /\ last.path \in DOMAIN last.before) =>
        /\ last.path \in DOMAIN fs
        /\ fs[last.path] = last.before[last.path]

\* the results of the folder being repaired, or repaired last: the latest
\* success_count + failed_count entries of all_results
FolderResults ==
    SubSeq(run.all_results,
           Len(run.all_results) - (run.success_count + run.failed_count) + 1,
           Len(run.all_results))

\* C29: in a fix_folders run every recorded outcome is success, dry_run or
\* failed, never skipped; the total of the saved report is its success (or
\* preview) count plus its failed count; and the failure counter of a folder
\* is the number of failed outcomes of the folder.
C29_CountsAddUp ==
    run.pc # "idle" =>
        /\ \A i \in 1..Len(run.all_results) :
              run.all_results[i].status \in {"success", "dry_run", "failed"}
        /\ save_results_counts(run.all_results).total
              = save_results_counts(run.all_results).success
                + save_results_counts(run.all_results).failed
        /\ run.success_count + run.failed_count <= Len(run.all_results)
        /\ run.failed_count = save_results_counts(FolderResults).failed
        /\ run.success_count = save_results_counts(FolderResults).success

\* a finished run with a repaired record and a failed one
C29_Witness ==
    /\ RunReturned
    /\ save_results_counts(run.all_results).success >= 1
    /\ save_results_counts(run.all_results).failed >= 1
    /\ run.failed_count >= 1


\* ------------------------------------------------------------------------
\* Further claims about the validator (SpecVal)
\* ------------------------------------------------------------------------

\* the four counters of one field of field_counters, added up
CountersTotal(counters) ==
    counters["valid"] + counters["invalid"] + counters["missing"] + counters["error"]

\* C30: throughout validate_folders every target field has exactly one
\* verdict (valid, invalid, missing or error) per JSON file checked so far,
\* so at the return the four lists of each field add up to the number of
\* files enumerated over the processed folders; and the per-folder counters
\* of each field add up to the number of that folder's files checked so far,
\* which is the folder's file count when the folder is finished
C30_VerdictsAddUp ==
    (valRun.pc \in {"folder", "files", "done", "exited"} /\ valRun.returned # "empty"
     /\ valRun.returned # "raised") =>
       /\ DOMAIN valRun.all_results = Fields(valConf.target_fields)
       /\ \A field \in DOMAIN valRun.all_results :
            summary_total(valRun.all_results[field])
              = Cardinality(valRun.enumerated) - Cardinality(valRun.pending)
       /\ \A field \in DOMAIN valRun.field_counters :
            CountersTotal(valRun.field_counters[field])
              = valRun.folder_files - Cardinality(valRun.pending)

\* validate_folders has returned after two folders with files, with verdicts
\* of several kinds among them, one of them an error
C30_Witness ==
    /\ ValReturned
    /\ Cardinality({e.pass : e \in valRun.enumerated}) = 2
    /\ Cardinality(valRun.enumerated) >= 3
    /\ \E field \in DOMAIN valRun.all_results :
         /\ valRun.all_results[field]["error"] # <<>>
         /\ valRun.all_results[field]["valid"] # <<>>
         /\ CountersTotal(valRun.field_counters[field]) = valRun.folder_files
         /\ valRun.folder_files < Cardinality(valRun.enumerated)

\* a folder named with --folders of the validator's run does not exist
ValRequestedMissing ==
    \E i \in 1..Len(valRun.folder_names) : valRun.folder_names[i] \notin ExistingDirs

\* C22 as stated: the validator exits with a non-zero status only when its
\* base path or a requested folder does not exist; a run over existing
\* directories, empty ones included, exits with status 0
C22_AsStated ==
    (valRun.pc = "exited" /\ valRun.exit_code # 0) =>
        (~valConf.base_exists \/ ValRequestedMissing)

\* C21 as stated: a validator run whose base path or one of whose requested
\* folders does not exist fails (an exception, or the one error message and
\* an empty result) without enumerating anything, while a run over existing
\* directories, empty ones included, enumerates without an error
C21_AsStated ==
    /\ (valRun.pc # "idle" /\ (~valConf.base_exists \/ ValRequestedMissing)) =>
          /\ valRun.enumerated = {}
          /\ valRun.pc \in {"done", "exited"} => valRun.returned \in {"raised", "empty"}
    /\ (valRun.pc \in {"done", "exited"} /\ valConf.base_exists /\ ~ValRequestedMissing) =>
          valRun.returned = "results"

\* ------------------------------------------------------------------------
\* Further claims about the pair checker (SpecPair)
\* ------------------------------------------------------------------------

\* the elements of a list
Elements(list) == {list[i] : i \in 1..Len(list)}

\* C25 as stated: the details written to the JSON report list every stem of
\* each class; for the perfect pairs, every perfect pair is in the list the
\* report holds for them
C25_AsStated ==
    pairResult.kind = "details" =>
        Elements(pairResult.perfect_pairs_sample) = pairResult.perfect_pairs

(***************************************************************************)
(* The video stats analyzer (export-report/video_stats_analyzer.py).       *)
(* uploads is base_path: whether it exists, and the content of each of its *)
(* folders.  stats_output is output_dir: processed_folders.json and the    *)
(* CSV files written.  A run is main: the constructor loads                *)
(* processed_folders.json, then list_folders or analyze_folders runs, the  *)
(* latter taken folder by folder.                                          *)
(***************************************************************************)
\* the folder names of the model, in the order sorted() gives them
FolderOrder == <<"misc", "upload_20250829_001", "upload_20250901_002">>

\* a date argument that was not given, and the date of a folder name
\* without eight digits in a row (None)
NoDay == 0

\* extract_date_from_folder: the first eight digits in a row of the folder
\* name, as a number (dates of eight digits compare as their texts do)
extract_date_from_folder(folder_name) ==
    CASE folder_name = "upload_20250829_001" -> 20250829
      [] folder_name = "upload_20250901_002" -> 20250901
      [] OTHER -> NoDay

\* is_folder_in_date_range
is_folder_in_date_range(folder_name, start_date, end_date) ==
    LET folder_date == extract_date_from_folder(folder_name)
    IN  /\ folder_date # NoDay
        /\ ~(start_date # NoDay /\ folder_date < start_date)
        /\ ~(end_date # NoDay /\ folder_date > end_date)

\* get_upload_folders: the folders of base_path within the date range,
\* sorted; [] when base_path does not exist
get_upload_folders(up, start_date, end_date) ==
    IF ~up.exists
    THEN <<>>
    ELSE SelectSeq(FolderOrder,
                   LAMBDA f : f \in DOMAIN up.folders
                              /\ is_folder_in_date_range(f, start_date, end_date))

\* parse_duration: the seconds of an "HH:MM:SS" text, 0 for any other text
parse_duration(duration_str) ==
    CASE duration_str = "00:01:05" -> 65
      [] duration_str = "01:00:00" -> 3600
      [] duration_str = "00:00:00" -> 0
      [] OTHER -> 0

\* get_json_files_from_folder: the *.json files of the folder's manifests
\* directory; [] when there is no manifests directory
get_json_files_from_folder(content) ==
    IF ~content.manifests THEN {} ELSE DOMAIN content.files

\* what process_folder does once the manifests are read: with invalid
\* files it writes invalid_files_<folder>.csv; without a valid duration it
\* returns False; else it writes the two statistics files and returns True.
\* io names the to_csv call that raises, if any
Processed(folder_name, json_files, valid, io) ==
    LET invalid_csv == IF valid # json_files /\ json_files # {}
                       THEN {[kind |-> "invalid_files", folder |-> folder_name]}
                       ELSE {}
        stats_csv == {[kind |-> "video_stats", folder |-> folder_name],
                      [kind |-> "video_durations_raw", folder |-> folder_name]}
    IN  IF invalid_csv # {} /\ io = "invalid_csv"
        THEN [raised |-> TRUE, returned |-> FALSE, files |-> {}]
        ELSE IF valid = {}
        THEN [raised |-> FALSE, returned |-> FALSE, files |-> invalid_csv]
        ELSE IF io = "stats_csv"
        THEN [raised |-> TRUE, returned |-> FALSE, files |-> invalid_csv]
        ELSE [raised |-> FALSE, returned |-> TRUE, files |-> invalid_csv \cup stats_csv]

\* process_folder(folder_path): a manifest gives a valid duration when it
\* is an object whose duration is not empty and parses to more than 0
\* seconds; any other file is recorded in invalid_files
process_folder(folder_name, content, io) ==
    Processed(folder_name, get_json_files_from_folder(content),
              {f \in get_json_files_from_folder(content) :
                   /\ content.files[f].kind = "object"
                   /\ content.files[f].duration # ""
                   /\ parse_duration(content.files[f].duration) > 0},
              io)

\* mutant: the log is not read
load_processed_folders_Forget(log) == {}

\* load_processed_folders: set(json.load(f)) of processed_folders.json, or
\* set() when the file does not exist
load_processed_folders(log) == IF log.exists THEN log.names ELSE {}

\* save_processed_folders: the file is written with the sorted names
save_processed_folders(processed_folders) == [exists |-> TRUE, names |-> processed_folders]

(***************************************************************************)
(* Inputs of the video stats analyzer.                                     *)
(***************************************************************************)
\* what an upload folder may hold: no manifests directory; only files that
\* give no duration; one valid manifest; a valid manifest beside one
\* without a duration
FolderContents ==
    {[manifests |-> FALSE, files |-> << >>],
     [manifests |-> TRUE,
      files |-> [f \in {"v1", "v2"} |-> IF f = "v1" THEN [kind |-> "garbage", duration |-> ""]
                                        ELSE [kind |-> "object", duration |-> "00:00:00"]]],
     [manifests |-> TRUE, files |-> [f \in {"v1"} |-> [kind |-> "object", duration |-> "00:01:05"]]],
     [manifests |-> TRUE,
      files |-> [f \in {"v1", "v2"} |-> IF f = "v1" THEN [kind |-> "object", duration |-> "01:00:00"]
                                        ELSE [kind |-> "object", duration |-> ""]]]}

\* base_path with the two dated folders and a folder without a date
UploadTrees ==
    {[exists |-> TRUE,
      folders |-> [f \in {"misc", "upload_20250829_001", "upload_20250901_002"} |->
                     IF f = "misc" THEN [manifests |-> TRUE,
                                         files |-> [v \in {"v1"} |-> [kind |-> "object", duration |-> "00:01:05"]]]
                     ELSE c[f]]] :
        c \in [{"upload_20250829_001", "upload_20250901_002"} -> FolderContents]}

\* --start-date and --end-date: not given, or 20250901 / 20250831
DateRanges == {<<NoDay, NoDay>>, <<20250901, NoDay>>, <<NoDay, 20250831>>}

StatsInit ==
    /\ uploads \in UploadTrees \cup {[exists |-> FALSE, folders |-> << >>]}
    /\ stats_output = [processed_log |-> [exists |-> FALSE, names |-> {}], files |-> {}]
    /\ analyzer = NoAnalyzer
    /\ pairDirs = [d \in {} |-> {}]
    /\ pairCall = NoCall
    /\ pairResult = NoResult
    /\ fs = EmptyFs
    /\ job = IdleJob
    /\ now = 0
    /\ calls = 0
    /\ faults = 0
    /\ last = NoLast
    /\ run = NoRun
    /\ ValIdle

\* between two runs the manifests of an upload folder change
Upload ==
    /\ analyzer.pc \in {"idle", "exited"}
    /\ uploads.exists
    /\ \E f \in {"upload_20250829_001", "upload_20250901_002"}, c \in FolderContents :
         uploads' = [uploads EXCEPT !.folders[f] = c]
    /\ UNCHANGED <<stats_output, analyzer, pairVars, fixVars, valVars>>

\* the analyzer main constructs: processed_folders is loaded from the log
Constructed(log, runs) ==
    [NoAnalyzer EXCEPT !.pc = "exited", !.runs = runs,
                       !.loaded = load_processed_folders(log),
                       !.processed_folders = load_processed_folders(log)]

\* main with --list: the constructor, then list_folders, which prints
main_list ==
    /\ analyzer.pc \in {"idle", "exited"}
    /\ analyzer.runs < MaxRuns
    /\ \E range \in DateRanges :
         analyzer' = [Constructed(stats_output.processed_log, analyzer.runs + 1)
                        EXCEPT !.list = TRUE, !.start_date = range[1],
                               !.end_date = range[2]]
    /\ UNCHANGED <<uploads, stats_output, pairVars, fixVars, valVars>>

\* main without --list: the constructor, then analyze_folders up to its
\* loop; it returns when get_upload_folders gives no folder
analyze_folders_start ==
    /\ analyzer.pc \in {"idle", "exited"}
    /\ analyzer.runs < MaxRuns
    /\ \E range \in DateRanges, reprocess \in BOOLEAN :
         LET made == [Constructed(stats_output.processed_log, analyzer.runs + 1)
                        EXCEPT !.start_date = range[1], !.end_date = range[2],
                               !.skip_processed = ~reprocess]
             folders == get_upload_folders(uploads, range[1], range[2])
         IN  analyzer' = IF folders = <<>>
                         THEN made
                         ELSE [made EXCEPT !.pc = "loop", !.folders = folders, !.idx = 1]
    /\ UNCHANGED <<uploads, stats_output, pairVars, fixVars, valVars>>

\* the analyzer after process_folder(folder) in the loop: an exception
\* ends the run; True adds the name and counts it
AfterProcess(a, folder_name, out) ==
    IF out.raised
    THEN [a EXCEPT !.pc = "exited", !.error = "OSError",
                   !.passed = Append(@, [folder |-> folder_name,
                                         known |-> folder_name \in a.processed_folders,
                                         returned |-> "raised"])]
    ELSE [a EXCEPT !.idx = @ + 1,
                   !.processed_folders = IF out.returned THEN @ \cup {folder_name} ELSE @,
                   !.success_count = IF out.returned THEN @ + 1 ELSE @,
                   !.passed = Append(@, [folder |-> folder_name,
                                         known |-> folder_name \in a.processed_folders,
                                         returned |-> IF out.returned THEN "True" ELSE "False"])]

\* one turn of the loop of analyze_folders, for a folder that is skipped
analyze_folders_skip ==
    /\ analyzer.pc = "loop"
    /\ analyzer.idx <= Len(analyzer.folders)
    /\ analyzer.skip_processed
    /\ analyzer.folders[analyzer.idx] \in analyzer.processed_folders
    /\ analyzer' = [analyzer EXCEPT !.idx = @ + 1, !.skip_count = @ + 1]
    /\ UNCHANGED <<uploads, stats_output, pairVars, fixVars, valVars>>

\* one turn of the loop of analyze_folders, for a folder that is processed;
\* io is the to_csv call of process_folder that raises, if any
analyze_folders_process ==
    /\ analyzer.pc = "loop"
    /\ analyzer.idx <= Len(analyzer.folders)
    /\ ~(analyzer.skip_processed
         /\ analyzer.folders[analyzer.idx] \in analyzer.processed_folders)
    /\ \E io \in {"ok", "invalid_csv", "stats_csv"} :
         LET folder_name == analyzer.folders[analyzer.idx]
             out == process_folder(folder_name, uploads.folders[folder_name], io)
         IN  /\ analyzer' = AfterProcess(analyzer, folder_name, out)
             /\ stats_output' = [stats_output EXCEPT !.files = @ \cup out.files]
    /\ UNCHANGED <<uploads, pairVars, fixVars, valVars>>

\* the end of analyze_folders: save_processed_folders, then the totals
analyze_folders_finish ==
    /\ analyzer.pc = "loop"
    /\ analyzer.idx > Len(analyzer.folders)
    /\ stats_output' = [stats_output EXCEPT
                          !.processed_log = save_processed_folders(analyzer.processed_folders)]
    /\ analyzer' = [analyzer EXCEPT !.pc = "exited"]
    /\ UNCHANGED <<uploads, pairVars, fixVars, valVars>>

StatsNext ==
    \/ Upload
    \/ main_list
    \/ analyze_folders_start
    \/ analyze_folders_skip
    \/ analyze_folders_process
    \/ analyze_folders_finish

SpecStats == StatsInit /\ [][StatsNext]_vars

\* ------------------------------------------------------------------------
\* Claims about the video stats analyzer (SpecStats)
\* ------------------------------------------------------------------------

\* the folders passed to process_folder in the current run were not in
\* processed_folders when skip_processed is true, and the names the run has
\* added to processed_folders are those for which process_folder returned
\* True
C26_Run ==
    /\ analyzer.skip_processed =>
          \A i \in 1..Len(analyzer.passed) : ~analyzer.passed[i].known
    /\ analyzer.processed_folders \ analyzer.loaded
         = {analyzer.passed[i].folder :
                i \in {j \in 1..Len(analyzer.passed) : analyzer.passed[j].returned = "True"}}
             \ analyzer.loaded
    /\ analyzer.loaded \subseteq analyzer.processed_folders

\* no step removes a name from processed_folders.json; within a run no step
\* removes a name from the analyzer's set, a new run starts from the names
\* of the file, and a name enters the analyzer's set only in a step that
\* passes its folder to process_folder with the result True
C26_Step ==
    /\ stats_output.processed_log.names \subseteq stats_output'.processed_log.names
    /\ stats_output.processed_log.exists => stats_output'.processed_log.exists
    /\ analyzer'.runs = analyzer.runs =>
          /\ analyzer.processed_folders \subseteq analyzer'.processed_folders
          /\ \A f \in analyzer'.processed_folders \ analyzer.processed_folders :
               /\ Len(analyzer'.passed) = Len(analyzer.passed) + 1
               /\ analyzer'.passed[Len(analyzer'.passed)]
                    = [folder |-> f, known |-> FALSE, returned |-> "True"]
    /\ analyzer'.runs # analyzer.runs =>
          analyzer'.processed_folders = stats_output.processed_log.names

====
